---------------------------- MODULE Spec2Model ----------------------------
(***************************************************************************)
(* SolprismTreasury (integrations/solprism): the commit -> execute ->      *)
(* reveal sequencing of executeAudited, the initialize / isReady /         *)
(* ensureReady precondition, and the in-memory session log.                *)
(*                                                                         *)
(* The SOLPRISM client (@solprism/sdk) and the caller's action are the     *)
(* environment: every awaited call is in flight until a *Settles action    *)
(* resolves or rejects it, so several executeAudited calls and an          *)
(* initialize call interleave at every await, as promises do.              *)
(***************************************************************************)
EXTENDS Integers, Sequences, FiniteSets, TLC

(* ------------------------------ bounds --------------------------------- *)

\* executeAudited calls issued over one behaviour
MaxCalls == 2
\* initialize calls issued over one behaviour
MaxInits == 1
\* initialize calls issued over one session of operations made one at a time
MaxSessionInits == 2
\* getSessionLog calls a caller makes, and changes it makes to the array it
\* was returned, before it lets go of the array
MaxQueries == 2
\* token addresses in the list collectAllFees is given
MaxTokens == 2
\* readings of the wall clock (new Date()) go from 0 to MaxClock
MaxClock == 2

CallIds == 1..MaxCalls

(* ----------------------------- constants ------------------------------- *)

SOLPRISM_EXPLORER == "https://www.solprism.app"

RiskLevels == {"low", "medium", "high", "critical"}

\* Mutant of RISK_TO_CONFIDENCE: the scores of high and critical are swapped
RISK_TO_CONFIDENCE_Swapped(level) ==
  CASE level = "low" -> 90
    [] level = "medium" -> 70
    [] level = "high" -> 20
    [] level = "critical" -> 45

RISK_TO_CONFIDENCE(level) ==
  CASE level = "low" -> 90
    [] level = "medium" -> 70
    [] level = "high" -> 45
    [] level = "critical" -> 20

(* ------------------------------- inputs -------------------------------- *)

\* this.wallet = null
NoWallet == "null"
Wallets == {"walletA"}

\* An absent optional field (portfolioContext?, constraints?) is <<>>, a
\* present one is the one-element sequence holding its value.
Absent == <<>>

\* TreasuryReasoning values the callers pass
Reasonings ==
  { [action |-> "rebalance",
     rationale |-> "drifted",
     risk |-> [level |-> "low", factors |-> <<"liquid">>],
     expectedOutcome |-> "50/50",
     portfolioContext |-> <<[totalValueUSD |-> 15000, positions |-> <<"SOL", "USDC">>]>>,
     constraints |-> Absent],
    [action |-> "transfer",
     rationale |-> "pay",
     risk |-> [level |-> "high", factors |-> <<>>],
     expectedOutcome |-> "paid",
     portfolioContext |-> Absent,
     constraints |-> <<<<"max 1 SOL">>>>] }

\* TreasuryReasoning values of every risk level, with and without a portfolio
\* context, with and without constraints (an empty list is a list)
TraceReasonings ==
  [action : {"swap"},
   rationale : {"price moved"},
   risk : [level : RiskLevels, factors : {<<"slippage", "depth">>}],
   expectedOutcome : {"swapped"},
   portfolioContext : {Absent, <<[totalValueUSD |-> 0, positions |-> <<"SOL">>]>>},
   constraints : {Absent, <<<<>>>>, <<<<"max 1 SOL">>>>}]

NoReasoning ==
  [action |-> "", rationale |-> "", risk |-> [level |-> "", factors |-> <<>>],
   expectedOutcome |-> "", portfolioContext |-> Absent, constraints |-> Absent]

\* What the caller's action does when it is awaited: resolve with a value or
\* reject with an error value of the caller's own.
ActionValues == {"ok"}
ActionErrors == {"InsufficientFunds"}
Actions ==
  [kind : {"resolve"}, value : ActionValues, error : {""}] \cup
  [kind : {"reject"}, value : {""}, error : ActionErrors]
NoAction == [kind |-> "", value |-> "", error |-> ""]

\* Errors the SOLPRISM client rejects with
CommitErrors == {"CommitFailed"}
RevealErrors == {"RevealFailed"}
RegistrationErrors == {"RpcFailed"}

\* The commitment hash the SDK computes from a trace: the trace decides it
\* (verifyReasoning recomputes it from the trace), and it is opaque here.
\* It is longer than the 16 characters the audit report shows of it.
HashOf(trace) == trace.action.type \o "-trace-digest-0123456789abcdef"

\* The n-th commitment account the program creates
AddressOf(n) == "commitment" \o ToString(n)

\* Configurations the constructor is given; autoRegister defaults to true
StorageUris == {"", "ipfs://store"}
Configs ==
  [agentName : {"Skippy"}, autoRegister : BOOLEAN, reasoningStorageUri : StorageUris]

(* -------------------------------- state -------------------------------- *)

VARIABLES
  config,        \* this.config, after the constructor merged the defaults
  wallet,        \* this.wallet
  registered,    \* this.registered
  actionLog,     \* this.actionLog
  calls,         \* the executeAudited calls: position, locals, settled promise
  init,          \* the initialize call in flight, and how many were issued
  clock,         \* the wall clock new Date() reads
  chain,         \* the SOLPRISM program's state: agents, commitments, reveals
  clientCalls,   \* calls of this.client's registration, commit and reveal
                 \* methods, counted per method
  actionsRun,    \* executeAudited calls whose action has taken effect
  verify,        \* the verifyAction call in flight, and the last one's result
  reads,         \* the getAccountabilityScore / getAuditHistory call likewise
  snapshot,      \* the array getSessionLog returned last, as its caller holds it
  report,        \* what formatAuditReport returned last
  collector,     \* ClawnchFeeCollector: the collectAllFees call and its effects
  manager        \* TreasuryManager: its configuration and the call in flight

\* What the callers of the query methods hold
callerVars == <<verify, reads, snapshot, report>>

\* The two classes of src/treasury.ts
treasuryVars == <<collector, manager>>

\* The fields and callers of SolprismTreasury
solprismVars ==
  <<config, wallet, registered, actionLog, calls, init, clock, chain,
    clientCalls, actionsRun, callerVars>>

vars == <<solprismVars, treasuryVars>>


(* ------------------------------ helpers -------------------------------- *)

\* toReasoningTrace: the argument handed to the SDK's createReasoningTrace.
\* parameters is a mapping whose optional keys exist only when the reasoning
\* carries the field (the conditional spreads of the source).
toReasoningTrace(reasoning) ==
  [action |->
     [type |-> reasoning.action,
      description |-> reasoning.rationale,
      parameters |->
        ("risk_level" :> <<reasoning.risk.level>>) @@
        ("risk_factors" :> <<reasoning.risk.factors>>) @@
        (IF reasoning.portfolioContext # Absent
           THEN ("portfolio_value_usd" :> <<reasoning.portfolioContext[1].totalValueUSD>>) @@
                ("positions" :> <<reasoning.portfolioContext[1].positions>>)
           ELSE <<>>) @@
        (IF reasoning.constraints # Absent
           THEN "constraints" :> <<reasoning.constraints[1]>>
           ELSE <<>>)],
   decision |->
     [confidence |-> RISK_TO_CONFIDENCE(reasoning.risk.level),
      reasoning |-> reasoning.rationale,
      expectedOutcome |-> reasoning.expectedOutcome]]

\* Mutant of buildExplorerUrl: the path segment is missing
buildExplorerUrl_NoPath(commitmentAddress) ==
  SOLPRISM_EXPLORER \o "/" \o commitmentAddress

\* buildExplorerUrl
buildExplorerUrl(commitmentAddress) ==
  SOLPRISM_EXPLORER \o "/commitment/" \o commitmentAddress

\* Mutant of buildReasoningUri: the storage path is built from the commitment
\* address instead of the commitment hash
buildReasoningUri_ByAddress(reasoning, commit) ==
  IF config.reasoningStorageUri # ""
    THEN config.reasoningStorageUri \o "/" \o commit.commitmentAddress
    ELSE SOLPRISM_EXPLORER \o "/commitment/" \o commit.commitmentAddress

\* buildReasoningUri: an empty or missing reasoningStorageUri is falsy
buildReasoningUri(reasoning, commit) ==
  IF config.reasoningStorageUri # ""
    THEN config.reasoningStorageUri \o "/" \o commit.commitmentHash
    ELSE SOLPRISM_EXPLORER \o "/commitment/" \o commit.commitmentAddress

\* isReady()
isReady == wallet # NoWallet /\ registered

\* Mutant of ensureReady: the guard is missing
ensureReady_NoGuard == TRUE

\* ensureReady(): TRUE when it returns, FALSE when it throws
ensureReady == wallet # NoWallet

\* The Error ensureReady throws
NotInitialized == "SolprismTreasury not initialized. Call initialize(wallet) first."

(* ------------------------- promises and locals ------------------------- *)

\* A promise: not created yet, pending, or settled with a value or an error
NotCalled == [kind |-> "notCalled", error |-> "", value |-> <<>>]
Pending == [kind |-> "pending", error |-> "", value |-> <<>>]
Rejected(e) == [kind |-> "rejected", error |-> e, value |-> <<>>]
Fulfilled(v) == [kind |-> "fulfilled", error |-> "", value |-> <<v>>]

NoCommit == [signature |-> "", commitmentAddress |-> "", commitmentHash |-> ""]
NoReveal == [signature |-> "", reasoningUri |-> ""]
\* trace is <<>> before the call is made, <<trace>> after
NoCommitArgs == [wallet |-> NoWallet, trace |-> <<>>]
NoRevealArgs == [wallet |-> NoWallet, commitmentAddress |-> "", reasoningUri |-> ""]
NoTimestamps == [committed |-> 0, executed |-> 0, revealed |-> 0]

\* An executeAudited call that has not been issued yet
IdleCall ==
  [pc |-> "idle",
   reasoning |-> NoReasoning,
   action |-> NoAction,
   commitArgs |-> NoCommitArgs,
   commitPromise |-> NotCalled,
   commit |-> NoCommit,
   actionPromise |-> NotCalled,
   actionResult |-> "",
   revealArgs |-> NoRevealArgs,
   revealPromise |-> NotCalled,
   reveal |-> NoReveal,
   timestamps |-> NoTimestamps,
   nCommit |-> 0,
   nAction |-> 0,
   nReveal |-> 0,
   outcome |-> Pending]

\* No verifyAction call made yet
NoVerifyArgs ==
  [commitmentAddress |-> "", reasoning |-> NoReasoning, trace |-> <<>>]
\* nVerify counts the client.verifyReasoning calls the verifyAction call made
IdleVerify ==
  [pc |-> "idle", args |-> NoVerifyArgs, promise |-> NotCalled,
   outcome |-> NotCalled, issued |-> 0, nVerify |-> 0]

\* No getAccountabilityScore / getAuditHistory call made yet
\* client names the client method the call invoked, "" if none
IdleRead ==
  [pc |-> "idle", op |-> "", args |-> <<>>, client |-> "",
   promise |-> NotCalled, outcome |-> NotCalled, issued |-> 0]

\* No array returned by getSessionLog yet. items is what the array holds now,
\* returned what it held when getSessionLog returned it, sharesLog whether it
\* is the very array this.actionLog refers to.
\* appends is the number of records pushed so far when it was returned, and
\* prior the same facts about the array returned before this one.
NoSnapshot ==
  [items |-> <<>>, returned |-> <<>>, sharesLog |-> FALSE, appends |-> 0,
   issued |-> 0, mutations |-> 0,
   prior |-> [items |-> <<>>, returned |-> <<>>, appends |-> 0]]

NoReport == [value |-> "", issued |-> 0]

\* No collectAllFees call made yet. token is the token being checked or
\* claimed and next the index of the list element the loop takes after it.
\* reads lists the feesToClaim reads in the order they were made, each with
\* the amount it answered (<<>> while it has not), and claims the claim
\* transactions in the order writeContract was called for them, each with the
\* index of the read made last before it. awaited is the promise of the
\* check or claim method collectAllFees is waiting for, and failed the
\* external call that rejected, if one did.
IdleCollector ==
  [pc |-> "idle", tokenAddresses |-> <<>>, token |-> "", next |-> 1,
   result |-> [wethClaimed |-> FALSE, wethAmount |-> "0", tokensClaimed |-> <<>>],
   reads |-> <<>>, claims |-> <<>>, failed |-> "", awaited |-> NotCalled,
   outcome |-> NotCalled]

\* No TreasuryManager constructed yet. reads lists the chain reads a call has
\* attempted, in order, each with whether it succeeded. awaited is the
\* promise of the method the call is waiting for: getBaseETHBalance,
\* getSolanaSOLBalance or, for getStatus, getAllBalances.
NoManager ==
  [pc |-> "unconstructed", thresholdDays |-> 0, solana |-> "",
   op |-> "", monthlyBurnRateUSD |-> 0, balances |-> <<>>, reads |-> <<>>,
   awaited |-> NotCalled, outcome |-> NotCalled]

Init ==
  /\ config \in Configs
  /\ wallet = NoWallet
  /\ registered = FALSE
  /\ actionLog = <<>>
  /\ calls = [c \in CallIds |-> IdleCall]
  /\ init = [pc |-> "idle", wallet |-> NoWallet, issued |-> 0,
             isRegistered |-> <<>>, outcome |-> Pending]
  /\ clock = 0
  /\ chain = [agents |-> {}, commitments |-> {}, revealed |-> {}]
  /\ clientCalls = [isAgentRegistered |-> 0, registerAgent |-> 0,
                    commitReasoning |-> 0, revealReasoning |-> 0]
  /\ actionsRun = {}
  /\ verify = IdleVerify
  /\ reads = IdleRead
  /\ snapshot = NoSnapshot
  /\ report = NoReport
  /\ collector = IdleCollector
  /\ manager = NoManager

\* The wall clock moves on between any two steps
Tick ==
  /\ clock < MaxClock
  /\ clock' = clock + 1
  /\ UNCHANGED <<config, wallet, registered, actionLog, calls, init, chain,
                 clientCalls, actionsRun,
                 callerVars, treasuryVars>>

Invoked(name) == [clientCalls EXCEPT ![name] = @ + 1]


(* ----------------------------- initialize ------------------------------ *)

\* Mutant of Initialize: initialize starts a new session and empties the log
Initialize_ClearsLog(w) ==
  /\ init.pc = "idle"
  /\ wallet' = w
  /\ actionLog' = <<>>
  /\ IF config.autoRegister
       THEN /\ init' = [pc |-> "awaitIsAgentRegistered", wallet |-> w,
                        issued |-> init.issued + 1, isRegistered |-> <<>>,
                        outcome |-> Pending]
            /\ clientCalls' = Invoked("isAgentRegistered")
       ELSE /\ init' = [pc |-> "idle", wallet |-> w,
                        issued |-> init.issued + 1, isRegistered |-> <<>>,
                        outcome |-> Fulfilled("void")]
            /\ UNCHANGED clientCalls
  /\ UNCHANGED <<config, registered, calls, clock, chain, actionsRun,
                 callerVars, treasuryVars>>

\* initialize(w), up to its first await. this.wallet is assigned at once.
\* With autoRegister off nothing is awaited and the promise resolves with
\* this.registered untouched.
Initialize(w) ==
  /\ init.pc = "idle"
  /\ wallet' = w
  /\ IF config.autoRegister
       THEN /\ init' = [pc |-> "awaitIsAgentRegistered", wallet |-> w,
                        issued |-> init.issued + 1, isRegistered |-> <<>>,
                        outcome |-> Pending]
            /\ clientCalls' = Invoked("isAgentRegistered")
       ELSE /\ init' = [pc |-> "idle", wallet |-> w,
                        issued |-> init.issued + 1, isRegistered |-> <<>>,
                        outcome |-> Fulfilled("void")]
            /\ UNCHANGED clientCalls
  /\ UNCHANGED <<config, registered, actionLog, calls, clock, chain, actionsRun,
                 callerVars, treasuryVars>>

\* Mutant of IsAgentRegisteredResolved: registerAgent is called whatever
\* isAgentRegistered reported
IsAgentRegisteredResolved_AlwaysRegisters ==
  /\ init.pc = "awaitIsAgentRegistered"
  /\ init' = [init EXCEPT !.pc = "awaitRegisterAgent",
                          !.isRegistered = <<init.wallet \in chain.agents>>]
  /\ clientCalls' = Invoked("registerAgent")
  /\ UNCHANGED <<config, wallet, registered, actionLog, calls, clock, chain,
                 actionsRun, callerVars, treasuryVars>>

\* client.isAgentRegistered(wallet.publicKey) resolves with what the chain
\* holds (kept in init.isRegistered). Registered: this.registered = true. Not
\* registered: registerAgent is called with the wallet initialize was given.
IsAgentRegisteredResolved ==
  /\ init.pc = "awaitIsAgentRegistered"
  /\ IF init.wallet \in chain.agents
       THEN /\ registered' = TRUE
            /\ init' = [init EXCEPT !.pc = "idle", !.isRegistered = <<TRUE>>,
                                    !.outcome = Fulfilled("void")]
            /\ UNCHANGED clientCalls
       ELSE /\ init' = [init EXCEPT !.pc = "awaitRegisterAgent",
                                    !.isRegistered = <<FALSE>>]
            /\ clientCalls' = Invoked("registerAgent")
            /\ UNCHANGED registered
  /\ UNCHANGED <<config, wallet, actionLog, calls, clock, chain, actionsRun,
                 callerVars, treasuryVars>>

\* client.registerAgent(wallet, agentName) resolves: the agent is on chain
RegisterAgentResolved ==
  /\ init.pc = "awaitRegisterAgent"
  /\ chain' = [chain EXCEPT !.agents = @ \cup {init.wallet}]
  /\ registered' = TRUE
  /\ init' = [init EXCEPT !.pc = "idle", !.outcome = Fulfilled("void")]
  /\ UNCHANGED <<config, wallet, actionLog, calls, clock, clientCalls, actionsRun,
                 callerVars, treasuryVars>>

\* Either awaited client call rejects: initialize rejects with that error.
\* Nothing is caught, so this.wallet keeps the value assigned on entry.
InitializeRejected(e) ==
  /\ init.pc \in {"awaitIsAgentRegistered", "awaitRegisterAgent"}
  /\ init' = [init EXCEPT !.pc = "idle", !.outcome = Rejected(e)]
  /\ UNCHANGED <<config, wallet, registered, actionLog, calls, clock, chain,
                 clientCalls, actionsRun,
                 callerVars, treasuryVars>>


(* ---------------------------- executeAudited --------------------------- *)

Set(c, call) == [calls EXCEPT ![c] = call]

\* Mutant of AuditRecord: the record is assembled without the reveal result
AuditRecord_NoReveal(call, reveal, revealedAt) ==
  [reasoning |-> call.reasoning,
   commit |-> call.commit,
   reveal |-> NoReveal,
   actionResult |-> call.actionResult,
   explorerUrl |-> buildExplorerUrl(call.commit.commitmentAddress),
   timestamps |-> [call.timestamps EXCEPT !.revealed = revealedAt]]

\* The AuditedActionResult assembled after a successful reveal
AuditRecord(call, reveal, revealedAt) ==
  [reasoning |-> call.reasoning,
   commit |-> call.commit,
   reveal |-> reveal,
   actionResult |-> call.actionResult,
   explorerUrl |-> buildExplorerUrl(call.commit.commitmentAddress),
   timestamps |-> [call.timestamps EXCEPT !.revealed = revealedAt]]

\* Mutant of ExecuteAudited: the action is started together with the commit
\* instead of after it
ExecuteAudited_Eager(c, reasoning, action) ==
  /\ calls[c].pc = "idle"
  /\ \A d \in 1..(c - 1) : calls[d].pc # "idle"
  /\ IF ensureReady
       THEN /\ calls' = Set(c, [calls[c] EXCEPT
                 !.pc = "awaitCommit",
                 !.reasoning = reasoning,
                 !.action = action,
                 !.timestamps = [committed |-> clock, executed |-> clock,
                                 revealed |-> clock],
                 !.commitArgs = [wallet |-> wallet,
                                 trace |-> <<toReasoningTrace(reasoning)>>],
                 !.commitPromise = Pending,
                 !.nCommit = @ + 1,
                 !.actionPromise = Pending,
                 !.nAction = @ + 1])
            /\ clientCalls' = Invoked("commitReasoning")
       ELSE /\ calls' = Set(c, [calls[c] EXCEPT
                 !.pc = "done",
                 !.reasoning = reasoning,
                 !.action = action,
                 !.outcome = Rejected(NotInitialized)])
            /\ UNCHANGED clientCalls
  /\ UNCHANGED <<config, wallet, registered, actionLog, init, clock, chain,
                 actionsRun,
                 callerVars, treasuryVars>>

\* executeAudited(reasoning, action), up to its first await: ensureReady,
\* toReasoningTrace, the three initial timestamps, and the call of
\* client.commitReasoning(this.wallet, trace). A throw of ensureReady rejects
\* the returned promise before anything else has run. Calls take their
\* identifiers in the order they are issued.
ExecuteAudited(c, reasoning, action) ==
  /\ calls[c].pc = "idle"
  /\ \A d \in 1..(c - 1) : calls[d].pc # "idle"
  /\ IF ensureReady
       THEN /\ calls' = Set(c, [calls[c] EXCEPT
                 !.pc = "awaitCommit",
                 !.reasoning = reasoning,
                 !.action = action,
                 !.timestamps = [committed |-> clock, executed |-> clock,
                                 revealed |-> clock],
                 !.commitArgs = [wallet |-> wallet,
                                 trace |-> <<toReasoningTrace(reasoning)>>],
                 !.commitPromise = Pending,
                 !.nCommit = @ + 1])
            /\ clientCalls' = Invoked("commitReasoning")
       ELSE /\ calls' = Set(c, [calls[c] EXCEPT
                 !.pc = "done",
                 !.reasoning = reasoning,
                 !.action = action,
                 !.outcome = Rejected(NotInitialized)])
            /\ UNCHANGED clientCalls
  /\ UNCHANGED <<config, wallet, registered, actionLog, init, clock, chain,
                 actionsRun,
                 callerVars, treasuryVars>>

\* commitReasoning resolves: the program has created a commitment account at
\* a fresh address and the client returns it with the hash of the trace it
\* was given. The function
\* resumes: timestamps.committed, then the caller's action is started.
CommitResolved(c) ==
  /\ calls[c].pc = "awaitCommit"
  /\ LET n == Cardinality(chain.commitments) + 1
         commit == [signature |-> "commitTx" \o ToString(n),
                    commitmentAddress |-> AddressOf(n),
                    commitmentHash |-> HashOf(calls[c].commitArgs.trace[1])]
     IN /\ chain' = [chain EXCEPT !.commitments = @ \cup
                       {[commitmentAddress |-> commit.commitmentAddress,
                         commitmentHash |-> commit.commitmentHash,
                         agent |-> calls[c].commitArgs.wallet]}]
        /\ calls' = Set(c, [calls[c] EXCEPT
             !.pc = "awaitAction",
             !.commitPromise = Fulfilled(commit),
             !.commit = commit,
             !.timestamps.committed = clock,
             !.actionPromise = Pending,
             !.nAction = @ + 1])
  /\ UNCHANGED <<config, wallet, registered, actionLog, init, clock,
                 clientCalls, actionsRun,
                 callerVars, treasuryVars>>

\* Mutant of CommitRejected: a failed commit is tried once more
CommitRejected_Retried(c, e) ==
  /\ calls[c].pc = "awaitCommit"
  /\ IF calls[c].nCommit < 2
       THEN /\ calls' = Set(c, [calls[c] EXCEPT !.nCommit = @ + 1])
            /\ clientCalls' = Invoked("commitReasoning")
       ELSE /\ calls' = Set(c, [calls[c] EXCEPT
                 !.pc = "done",
                 !.commitPromise = Rejected(e),
                 !.outcome = Rejected(e)])
            /\ UNCHANGED clientCalls
  /\ UNCHANGED <<config, wallet, registered, actionLog, init, clock, chain,
                 actionsRun,
                 callerVars, treasuryVars>>

\* Mutant of CommitRejected: the commit failure is caught and logged, and the
\* action is started all the same
CommitRejected_Continues(c, e) ==
  /\ calls[c].pc = "awaitCommit"
  /\ calls' = Set(c, [calls[c] EXCEPT
       !.pc = "awaitAction",
       !.commitPromise = Rejected(e),
       !.actionPromise = Pending,
       !.nAction = @ + 1])
  /\ UNCHANGED <<config, wallet, registered, actionLog, init, clock, chain,
                 clientCalls, actionsRun,
                 callerVars, treasuryVars>>

\* commitReasoning rejects with e: the await throws outside any try, so
\* executeAudited rejects with e and runs nothing more.
CommitRejected(c, e) ==
  /\ calls[c].pc = "awaitCommit"
  /\ calls' = Set(c, [calls[c] EXCEPT
       !.pc = "done",
       !.commitPromise = Rejected(e),
       !.outcome = Rejected(e)])
  /\ UNCHANGED <<config, wallet, registered, actionLog, init, clock, chain,
                 clientCalls, actionsRun,
                 callerVars, treasuryVars>>

\* Mutant of ActionResolved: the commit result is kept in a field of the
\* instance, which holds the result of the commit that resolved last
ActionResolved_LatestCommit(c) ==
  /\ calls[c].pc = "awaitAction"
  /\ calls[c].action.kind = "resolve"
  /\ actionsRun' = actionsRun \cup {c}
  /\ calls' = Set(c, [calls[c] EXCEPT
       !.pc = "awaitReveal",
       !.actionPromise = Fulfilled(calls[c].action.value),
       !.actionResult = calls[c].action.value,
       !.timestamps.executed = clock,
       !.revealArgs = [wallet |-> wallet,
                       commitmentAddress |-> AddressOf(Cardinality(chain.commitments)),
                       reasoningUri |-> buildReasoningUri(calls[c].reasoning,
                                                          calls[c].commit)],
       !.revealPromise = Pending,
       !.nReveal = @ + 1])
  /\ clientCalls' = Invoked("revealReasoning")
  /\ UNCHANGED <<config, wallet, registered, actionLog, init, clock, chain,
                 callerVars, treasuryVars>>

\* Mutant of ActionResolved: timestamps.executed keeps the value it was given
\* when the call started
ActionResolved_NoStamp(c) ==
  /\ calls[c].pc = "awaitAction"
  /\ calls[c].action.kind = "resolve"
  /\ actionsRun' = actionsRun \cup {c}
  /\ calls' = Set(c, [calls[c] EXCEPT
       !.pc = "awaitReveal",
       !.actionPromise = Fulfilled(calls[c].action.value),
       !.actionResult = calls[c].action.value,
       !.revealArgs = [wallet |-> wallet,
                       commitmentAddress |-> calls[c].commit.commitmentAddress,
                       reasoningUri |-> buildReasoningUri(calls[c].reasoning,
                                                          calls[c].commit)],
       !.revealPromise = Pending,
       !.nReveal = @ + 1])
  /\ clientCalls' = Invoked("revealReasoning")
  /\ UNCHANGED <<config, wallet, registered, actionLog, init, clock, chain,
                 callerVars, treasuryVars>>

\* The action resolves with its value: timestamps.executed, then
\* buildReasoningUri and the call of client.revealReasoning(this.wallet,
\* commit.commitmentAddress, reasoningUri).
ActionResolved(c) ==
  /\ calls[c].pc = "awaitAction"
  /\ calls[c].action.kind = "resolve"
  /\ actionsRun' = actionsRun \cup {c}
  /\ calls' = Set(c, [calls[c] EXCEPT
       !.pc = "awaitReveal",
       !.actionPromise = Fulfilled(calls[c].action.value),
       !.actionResult = calls[c].action.value,
       !.timestamps.executed = clock,
       !.revealArgs = [wallet |-> wallet,
                       commitmentAddress |-> calls[c].commit.commitmentAddress,
                       reasoningUri |-> buildReasoningUri(calls[c].reasoning,
                                                          calls[c].commit)],
       !.revealPromise = Pending,
       !.nReveal = @ + 1])
  /\ clientCalls' = Invoked("revealReasoning")
  /\ UNCHANGED <<config, wallet, registered, actionLog, init, clock, chain,
                 callerVars, treasuryVars>>

\* Mutant of ActionRejected: the failed action's commitment is closed again
ActionRejected_RollsBack(c) ==
  /\ calls[c].pc = "awaitAction"
  /\ calls[c].action.kind = "reject"
  /\ chain' = [chain EXCEPT !.commitments =
       {k \in @ : k.commitmentAddress # calls[c].commit.commitmentAddress}]
  /\ calls' = Set(c, [calls[c] EXCEPT
       !.pc = "done",
       !.actionPromise = Rejected(calls[c].action.error),
       !.timestamps.executed = clock,
       !.outcome = Rejected(calls[c].action.error)])
  /\ UNCHANGED <<config, wallet, registered, actionLog, init, clock,
                 clientCalls, actionsRun,
                 callerVars, treasuryVars>>

\* Mutant of ActionRejected: the reveal is made in a finally block, so it also
\* runs when the action has failed
ActionRejected_Reveals(c) ==
  /\ calls[c].pc = "awaitAction"
  /\ calls[c].action.kind = "reject"
  /\ calls' = Set(c, [calls[c] EXCEPT
       !.pc = "done",
       !.actionPromise = Rejected(calls[c].action.error),
       !.timestamps.executed = clock,
       !.revealArgs = [wallet |-> wallet,
                       commitmentAddress |-> calls[c].commit.commitmentAddress,
                       reasoningUri |-> buildReasoningUri(calls[c].reasoning,
                                                          calls[c].commit)],
       !.nReveal = @ + 1,
       !.outcome = Rejected(calls[c].action.error)])
  /\ clientCalls' = Invoked("revealReasoning")
  /\ UNCHANGED <<config, wallet, registered, actionLog, init, clock, chain,
                 actionsRun,
                 callerVars, treasuryVars>>

\* Mutant of ActionRejected: the catch block throws a new error of its own
ActionRejected_Wrapped(c) ==
  /\ calls[c].pc = "awaitAction"
  /\ calls[c].action.kind = "reject"
  /\ calls' = Set(c, [calls[c] EXCEPT
       !.pc = "done",
       !.actionPromise = Rejected(calls[c].action.error),
       !.timestamps.executed = clock,
       !.outcome = Rejected("ActionFailed")])
  /\ UNCHANGED <<config, wallet, registered, actionLog, init, clock, chain,
                 clientCalls, actionsRun,
                 callerVars, treasuryVars>>

\* The action rejects: the catch block sets timestamps.executed and rethrows
\* the caught error.
ActionRejected(c) ==
  /\ calls[c].pc = "awaitAction"
  /\ calls[c].action.kind = "reject"
  /\ calls' = Set(c, [calls[c] EXCEPT
       !.pc = "done",
       !.actionPromise = Rejected(calls[c].action.error),
       !.timestamps.executed = clock,
       !.outcome = Rejected(calls[c].action.error)])
  /\ UNCHANGED <<config, wallet, registered, actionLog, init, clock, chain,
                 clientCalls, actionsRun,
                 callerVars, treasuryVars>>

\* Mutant of RevealResolved: the record is put at the front of the log
\* (unshift) instead of its end
RevealResolved_Unshift(c) ==
  /\ calls[c].pc = "awaitReveal"
  /\ LET reveal == [signature |-> "revealTx" \o ToString(Cardinality(chain.revealed) + 1),
                    reasoningUri |-> calls[c].revealArgs.reasoningUri]
         result == AuditRecord(calls[c], reveal, clock)
     IN /\ chain' = [chain EXCEPT !.revealed = @ \cup
                       {calls[c].revealArgs.commitmentAddress}]
        /\ actionLog' = <<result>> \o actionLog
        /\ calls' = Set(c, [calls[c] EXCEPT
             !.pc = "done",
             !.revealPromise = Fulfilled(reveal),
             !.reveal = reveal,
             !.timestamps.revealed = clock,
             !.outcome = Fulfilled(result)])
  /\ UNCHANGED <<config, wallet, registered, init, clock, clientCalls, actionsRun,
                 callerVars, treasuryVars>>

\* revealReasoning resolves: the program marks the commitment revealed and the
\* client returns the uri it stored. The function resumes: timestamps.revealed,
\* the result object, this.actionLog.push(result), return result.
RevealResolved(c) ==
  /\ calls[c].pc = "awaitReveal"
  /\ LET reveal == [signature |-> "revealTx" \o ToString(Cardinality(chain.revealed) + 1),
                    reasoningUri |-> calls[c].revealArgs.reasoningUri]
         result == AuditRecord(calls[c], reveal, clock)
     IN /\ chain' = [chain EXCEPT !.revealed = @ \cup
                       {calls[c].revealArgs.commitmentAddress}]
        /\ actionLog' = Append(actionLog, result)
        /\ calls' = Set(c, [calls[c] EXCEPT
             !.pc = "done",
             !.revealPromise = Fulfilled(reveal),
             !.reveal = reveal,
             !.timestamps.revealed = clock,
             !.outcome = Fulfilled(result)])
  /\ UNCHANGED <<config, wallet, registered, init, clock, clientCalls, actionsRun,
                 callerVars, treasuryVars>>

\* Mutant of RevealRejected: the record is pushed before the reveal is awaited,
\* so a failed reveal leaves it in the log
RevealRejected_Logged(c, e) ==
  /\ calls[c].pc = "awaitReveal"
  /\ actionLog' = Append(actionLog, AuditRecord(calls[c], NoReveal, clock))
  /\ calls' = Set(c, [calls[c] EXCEPT
       !.pc = "done",
       !.revealPromise = Rejected(e),
       !.outcome = Rejected(e)])
  /\ UNCHANGED <<config, wallet, registered, init, clock, chain,
                 clientCalls, actionsRun,
                 callerVars, treasuryVars>>

\* revealReasoning rejects with e: executeAudited rejects with e; the result
\* object is never built and nothing is pushed.
RevealRejected(c, e) ==
  /\ calls[c].pc = "awaitReveal"
  /\ calls' = Set(c, [calls[c] EXCEPT
       !.pc = "done",
       !.revealPromise = Rejected(e),
       !.outcome = Rejected(e)])
  /\ UNCHANGED <<config, wallet, registered, actionLog, init, clock, chain,
                 clientCalls, actionsRun,
                 callerVars, treasuryVars>>

(* ----------------------------- verifyAction ---------------------------- *)

\* Commitment addresses a caller asks verifyAction about
VerifyAddresses == {AddressOf(1), "unknownAddress"}
VerifyErrors == {"VerifyRpcFailed"}

\* What client.verifyReasoning answers: it recomputes the hash of the trace
\* and compares it with the hash the commitment account holds.
VerifyReasoning(commitmentAddress, trace) ==
  IF \E k \in chain.commitments :
       /\ k.commitmentAddress = commitmentAddress
       /\ k.commitmentHash = HashOf(trace)
    THEN [valid |-> TRUE, message |-> "Reasoning matches commitment"]
    ELSE [valid |-> FALSE, message |-> "Reasoning does not match commitment"]

\* Mutant of VerifyActionGuard: verifyAction calls ensureReady first, like the
\* other methods that use the client
VerifyActionGuard_EnsureReady == ensureReady

\* verifyAction has no precondition: it never calls ensureReady
VerifyActionGuard == TRUE

\* verifyAction(commitmentAddress, reasoning), up to its await:
\* toReasoningTrace and the call of client.verifyReasoning.
VerifyAction(commitmentAddress, reasoning) ==
  /\ verify.pc = "idle"
  /\ verify' =
       IF VerifyActionGuard
         THEN [pc |-> "awaitVerify",
               args |-> [commitmentAddress |-> commitmentAddress,
                         reasoning |-> reasoning,
                         trace |-> <<toReasoningTrace(reasoning)>>],
               promise |-> Pending,
               outcome |-> Pending,
               issued |-> verify.issued + 1,
               nVerify |-> verify.nVerify + 1]
         ELSE [pc |-> "idle",
               args |-> [commitmentAddress |-> commitmentAddress,
                         reasoning |-> reasoning,
                         trace |-> <<>>],
               promise |-> NotCalled,
               outcome |-> Rejected(NotInitialized),
               issued |-> verify.issued + 1,
               nVerify |-> verify.nVerify]
  /\ UNCHANGED <<config, wallet, registered, actionLog, calls, init, clock,
                 chain, clientCalls, actionsRun, reads, snapshot, report, treasuryVars>>

\* verifyReasoning resolves: verifyAction returns its valid flag and message
\* with the explorer URL of the address it was asked about.
VerifyResolved ==
  /\ verify.pc = "awaitVerify"
  /\ LET result == VerifyReasoning(verify.args.commitmentAddress,
                                    verify.args.trace[1])
     IN verify' = [verify EXCEPT
          !.pc = "idle",
          !.promise = Fulfilled(result),
          !.outcome = Fulfilled(
             [valid |-> result.valid,
              message |-> result.message,
              explorerUrl |-> buildExplorerUrl(verify.args.commitmentAddress)])]
  /\ UNCHANGED <<config, wallet, registered, actionLog, calls, init, clock,
                 chain, clientCalls, actionsRun, reads, snapshot, report, treasuryVars>>

\* verifyReasoning rejects with e: verifyAction rejects with e
VerifyRejected(e) ==
  /\ verify.pc = "awaitVerify"
  /\ verify' = [verify EXCEPT
       !.pc = "idle", !.promise = Rejected(e), !.outcome = Rejected(e)]
  /\ UNCHANGED <<config, wallet, registered, actionLog, calls, init, clock,
                 chain, clientCalls, actionsRun, reads, snapshot, report, treasuryVars>>

(* --------------- getAccountabilityScore, getAuditHistory --------------- *)

\* getAuditHistory(limit = 50)
DefaultHistoryLimit == 50
ReadErrors == {"ReadRpcFailed"}

\* What client.getAccountability answers for an agent: null while it has no
\* commitment, else the share of its commitments that were revealed, in
\* percent.
GetAccountability(agent) ==
  LET mine == {k \in chain.commitments : k.agent = agent}
      shown == {k \in mine : k.commitmentAddress \in chain.revealed}
  IN IF mine = {} THEN <<"null">>
     ELSE <<(Cardinality(shown) * 100) \div Cardinality(mine)>>

\* What client.getAgentCommitments answers: the agent's commitments, at most
\* limit of them.
GetAgentCommitments(agent, limit) ==
  LET mine == {k \in chain.commitments : k.agent = agent}
  IN IF Cardinality(mine) <= limit THEN mine
     ELSE CHOOSE some \in SUBSET mine : Cardinality(some) = limit

\* getAccountabilityScore() and getAuditHistory(limit), up to their await:
\* ensureReady, then the call of the client with this.wallet's public key.
Read(op, limit) ==
  /\ reads.pc = "idle"
  /\ reads' =
       IF ensureReady
         THEN [pc |-> "awaitRead", op |-> op,
               args |-> <<wallet, limit>>,
               client |-> IF op = "getAccountabilityScore"
                            THEN "getAccountability"
                            ELSE "getAgentCommitments",
               promise |-> Pending, outcome |-> Pending,
               issued |-> reads.issued + 1]
         ELSE [pc |-> "idle", op |-> op, args |-> <<>>, client |-> "",
               promise |-> NotCalled,
               outcome |-> Rejected(NotInitialized),
               issued |-> reads.issued + 1]
  /\ UNCHANGED <<config, wallet, registered, actionLog, calls, init, clock,
                 chain, clientCalls, actionsRun, verify, snapshot, report, treasuryVars>>

GetAccountabilityScore == Read("getAccountabilityScore", 0)
GetAuditHistory(limit) == Read("getAuditHistory", limit)

\* The client call resolves: the method returns what the client answered
ReadResolved ==
  /\ reads.pc = "awaitRead"
  /\ LET answer == IF reads.op = "getAccountabilityScore"
                     THEN GetAccountability(reads.args[1])
                     ELSE <<GetAgentCommitments(reads.args[1], reads.args[2])>>
     IN reads' = [reads EXCEPT
          !.pc = "idle",
          !.promise = Fulfilled(answer),
          !.outcome = Fulfilled(answer)]
  /\ UNCHANGED <<config, wallet, registered, actionLog, calls, init, clock,
                 chain, clientCalls, actionsRun, verify, snapshot, report, treasuryVars>>

\* The client call rejects with e: the method rejects with e
ReadRejected(e) ==
  /\ reads.pc = "awaitRead"
  /\ reads' = [reads EXCEPT
       !.pc = "idle", !.promise = Rejected(e), !.outcome = Rejected(e)]
  /\ UNCHANGED <<config, wallet, registered, actionLog, calls, init, clock,
                 chain, clientCalls, actionsRun, verify, snapshot, report, treasuryVars>>

(* ----------------------------- getSessionLog --------------------------- *)

\* Records this.actionLog.push has added so far: one per executeAudited call
\* that returned
Appends == Cardinality({c \in CallIds : calls[c].outcome.kind = "fulfilled"})

\* Mutant of getSessionLog: the log itself is returned, not a copy
getSessionLog_NoCopy == [items |-> actionLog, sharesLog |-> TRUE]

\* getSessionLog(): [...this.actionLog], a new array of the same records
getSessionLog == [items |-> actionLog, sharesLog |-> FALSE]

\* A caller calls getSessionLog() and keeps the array
GetSessionLog ==
  /\ snapshot' = [items |-> getSessionLog.items,
                  returned |-> getSessionLog.items,
                  sharesLog |-> getSessionLog.sharesLog,
                  appends |-> Appends,
                  issued |-> snapshot.issued + 1,
                  mutations |-> snapshot.mutations,
                  prior |-> [items |-> snapshot.items,
                             returned |-> snapshot.returned,
                             appends |-> snapshot.appends]]
  /\ UNCHANGED <<config, wallet, registered, actionLog, calls, init, clock,
                 chain, clientCalls, actionsRun, verify, reads, report, treasuryVars>>

\* What a caller does to an array it holds
Mutations == {"push", "pop", "reverse"}
Reverse(seq) == [i \in 1..Len(seq) |-> seq[Len(seq) + 1 - i]]
Mutated(items, m) ==
  CASE m = "push" -> Append(items, AuditRecord(IdleCall, NoReveal, 0))
    [] m = "pop" -> IF items = <<>> THEN items ELSE SubSeq(items, 1, Len(items) - 1)
    [] m = "reverse" -> Reverse(items)

\* The caller adds to, removes from or reorders the array it was returned.
\* this.actionLog changes with it only if it is that very array.
MutateSnapshot(m) ==
  /\ snapshot.issued > 0
  /\ snapshot' = [snapshot EXCEPT !.items = Mutated(@, m),
                                  !.mutations = @ + 1]
  /\ actionLog' = IF snapshot.sharesLog THEN Mutated(snapshot.items, m)
                                        ELSE actionLog
  /\ UNCHANGED <<config, wallet, registered, calls, init, clock, chain,
                 clientCalls, actionsRun, verify, reads, report, treasuryVars>>

(* ------------------- records shared with the callers ------------------ *)

\* executeAudited pushes result and returns result: the caller holds the very
\* object the log holds. getSessionLog copies the array, not its elements: the
\* elements of the returned array are the objects of the log. A record object
\* is known by the commitment address it was built with.
Forged == "https://example.org/forged"
Written(record) == [record EXCEPT !.explorerUrl = Forged]
IsObject(record, address) ==
  address # "" /\ record.commit.commitmentAddress = address

\* Every reference to the record object at address, after an assignment to
\* its explorerUrl field: in the log, in the array getSessionLog returned last
\* and in the one it returned before (what they held when they were returned
\* is kept as it was), and in the value executeAudited returned
WriteIn(records, address) ==
  [i \in DOMAIN records |->
     IF IsObject(records[i], address) THEN Written(records[i]) ELSE records[i]]

WriteRecord(address) ==
  /\ actionLog' = WriteIn(actionLog, address)
  /\ snapshot' = [snapshot EXCEPT !.items = WriteIn(@, address),
                                  !.prior.items = WriteIn(@, address)]
  /\ calls' = [c \in CallIds |->
       IF calls[c].outcome.kind = "fulfilled"
            /\ IsObject(calls[c].outcome.value[1], address)
         THEN [calls[c] EXCEPT !.outcome = Fulfilled(Written(@.value[1]))]
         ELSE calls[c]]
  /\ UNCHANGED <<config, wallet, registered, init, clock, chain, clientCalls,
                 actionsRun, verify, reads, report, treasuryVars>>

\* The caller of executeAudited call c assigns to a field of the record it was
\* returned
MutateReturnedRecord(c) ==
  /\ calls[c].outcome.kind = "fulfilled"
  /\ calls[c].outcome.value[1].explorerUrl # Forged
  /\ WriteRecord(calls[c].outcome.value[1].commit.commitmentAddress)

\* The caller of getSessionLog assigns to a field of element i of the array it
\* was returned
MutateSnapshotElement(i) ==
  /\ i \in DOMAIN snapshot.items
  /\ snapshot.items[i].commit.commitmentAddress # ""
  /\ snapshot.items[i].explorerUrl # Forged
  /\ WriteRecord(snapshot.items[i].commit.commitmentAddress)

(* --------------------------- formatAuditReport ------------------------- *)

\* The report's characters outside ASCII are written with ASCII stand-ins:
\* '=' for the double rule, '-' for the dash of the title, "+-" , "|" and
\* "+=" for the corners and the bar of a record's box.
Rule == "==================================================="
Title == "  SOLPRISM Audit Report - Agent Treasury Manager"
Footer == "  Verify any action: https://www.solprism.app/"
EmptyReport == "No audited actions in this session."

Min(a, b) == IF a <= b THEN a ELSE b

\* String.prototype.slice(from, to) for 0 <= from <= to
slice(str, from, to) == SubSeq(str, from + 1, Min(to, Len(str)))

\* Array.prototype.join
RECURSIVE join(_, _)
join(strs, sep) ==
  IF strs = <<>> THEN ""
  ELSE IF Len(strs) = 1 THEN strs[1]
  ELSE strs[1] \o sep \o join(Tail(strs), sep)

\* String.prototype.toUpperCase on the letters a-z
LowerCase == "abcdefghijklmnopqrstuvwxyz"
UpperCase == "ABCDEFGHIJKLMNOPQRSTUVWXYZ"
UpperOf(ch) ==
  IF \E i \in 1..Len(LowerCase) : SubSeq(LowerCase, i, i) = ch
    THEN LET i == CHOOSE j \in 1..Len(LowerCase) : SubSeq(LowerCase, j, j) = ch
         IN SubSeq(UpperCase, i, i)
    ELSE ch
RECURSIVE toUpperCase(_)
toUpperCase(str) ==
  IF str = "" THEN ""
  ELSE UpperOf(SubSeq(str, 1, 1)) \o toUpperCase(SubSeq(str, 2, Len(str)))

\* Date.prototype.toISOString for a clock reading of t milliseconds, t < 1000
toISOString(t) ==
  "1970-01-01T00:00:00."
    \o (IF t < 10 THEN "00" ELSE IF t < 100 THEN "0" ELSE "")
    \o ToString(t) \o "Z"

\* The eight lines formatAuditReport pushes for one record
EntryLines(entry) ==
  << "  +- " \o toUpperCase(entry.reasoning.action),
     "  |  Rationale: " \o entry.reasoning.rationale,
     "  |  Risk: " \o entry.reasoning.risk.level
        \o " (" \o join(entry.reasoning.risk.factors, ", ") \o ")",
     "  |  Expected: " \o entry.reasoning.expectedOutcome,
     "  |  Commitment: " \o slice(entry.commit.commitmentHash, 0, 16) \o "...",
     "  |  Explorer: " \o entry.explorerUrl,
     "  += Committed " \o toISOString(entry.timestamps.committed),
     "" >>

RECURSIVE AllEntryLines(_)
AllEntryLines(log) ==
  IF log = <<>> THEN <<>> ELSE EntryLines(Head(log)) \o AllEntryLines(Tail(log))

\* Mutant of formatAuditReport: the records are listed newest first
formatAuditReport_NewestFirst ==
  IF Len(actionLog) = 0 THEN EmptyReport
  ELSE join(
    << Rule, Title, Rule, "",
       "  Agent: " \o config.agentName,
       "  Actions: " \o ToString(Len(actionLog)),
       "  Session: " \o toISOString(actionLog[1].timestamps.committed),
       "" >>
    \o AllEntryLines(Reverse(actionLog))
    \o << Rule, Footer, Rule >>, "\n")

\* formatAuditReport()
formatAuditReport ==
  IF Len(actionLog) = 0 THEN EmptyReport
  ELSE join(
    << Rule, Title, Rule, "",
       "  Agent: " \o config.agentName,
       "  Actions: " \o ToString(Len(actionLog)),
       "  Session: " \o toISOString(actionLog[1].timestamps.committed),
       "" >>
    \o AllEntryLines(actionLog)
    \o << Rule, Footer, Rule >>, "\n")

\* A caller calls formatAuditReport() and keeps the string
FormatAuditReport ==
  /\ report' = [value |-> formatAuditReport, issued |-> report.issued + 1]
  /\ UNCHANGED <<config, wallet, registered, actionLog, calls, init, clock,
                 chain, clientCalls, actionsRun, verify, reads, snapshot, treasuryVars>>

(* ------------------------- ClawnchFeeCollector ------------------------- *)

WETH_ADDRESS == "0x4200000000000000000000000000000000000006"
TokenAddresses == {"0xTokenA", "0xTokenB"}

\* tokenAddresses arguments: every list of at most MaxTokens addresses, a
\* token listed twice included
RECURSIVE ListsOf(_, _)
ListsOf(S, n) ==
  IF n = 0 THEN {<<>>}
  ELSE ListsOf(S, n - 1) \cup
       {Append(l, x) : l \in {k \in ListsOf(S, n - 1) : Len(k) = n - 1}, x \in S}
TokenLists == ListsOf(TokenAddresses, MaxTokens)

\* Amounts feesToClaim answers, in wei
FeeAmounts == {0, 20}
FeeErrors == {"ContractCallFailed"}

\* viem's formatEther (formatUnits with 18 decimals) for amounts below one
\* ether: the digits padded to 18 places, trailing zeros dropped
RECURSIVE PadStart(_, _)
PadStart(str, n) == IF Len(str) >= n THEN str ELSE PadStart("0" \o str, n)
RECURSIVE DropTrailingZeros(_)
DropTrailingZeros(str) ==
  IF str # "" /\ SubSeq(str, Len(str), Len(str)) = "0"
    THEN DropTrailingZeros(SubSeq(str, 1, Len(str) - 1))
    ELSE str
formatEther(wei) ==
  LET fraction == DropTrailingZeros(PadStart(ToString(wei), 18))
  IN IF fraction = "" THEN "0" ELSE "0." \o fraction

\* Mutant of Claimable: the test is amountAvailable >= 0n
Claimable_AnyAmount(amountAvailable) == amountAvailable >= 0

\* if (fees.amountAvailable > 0n)
Claimable(amountAvailable) == amountAvailable > 0

\* The call state on the way to the next feesToClaim read, or to the return
\* when the list is exhausted
NextCheck(col) ==
  IF col.next <= Len(col.tokenAddresses)
    THEN [col EXCEPT
            !.pc = "check",
            !.token = col.tokenAddresses[col.next],
            !.next = @ + 1,
            !.awaited = Pending,
            !.reads = Append(@, [token |-> col.tokenAddresses[col.next],
                                 answer |-> <<>>])]
    ELSE [col EXCEPT !.pc = "done", !.token = "",
                     !.outcome = Fulfilled(col.result)]

\* collectAllFees(tokenAddresses), up to its first await: the result object
\* and checkWETHFees' readContract call
CollectAllFees(tokenAddresses) ==
  /\ collector.pc = "idle"
  /\ collector' = [IdleCollector EXCEPT
       !.pc = "check",
       !.tokenAddresses = tokenAddresses,
       !.token = WETH_ADDRESS,
       !.reads = <<[token |-> WETH_ADDRESS, answer |-> <<>>]>>,
       !.awaited = Pending,
       !.outcome = Pending]
  /\ UNCHANGED <<solprismVars, manager>>

\* readContract resolves with amountAvailable: checkWETHFees / checkTokenFees
\* returns the fee source
CheckResolved(amountAvailable) ==
  /\ collector.pc = "check"
  /\ collector' = [collector EXCEPT
       !.pc = "awaitCheck",
       !.reads[Len(collector.reads)].answer = <<amountAvailable>>,
       !.awaited = Fulfilled(amountAvailable)]
  /\ UNCHANGED <<solprismVars, manager>>

\* collectAllFees goes on after await checkWETHFees() / checkTokenFees(): a
\* rejection is not caught and rejects collectAllFees; a positive amount and
\* the claim method calls writeContract; zero and the loop goes on
CheckReturned ==
  /\ collector.pc = "awaitCheck"
  /\ collector' =
       IF collector.awaited.kind = "rejected"
         THEN [collector EXCEPT
                 !.pc = "done", !.outcome = Rejected(collector.awaited.error)]
       ELSE IF Claimable(collector.awaited.value[1])
         THEN [collector EXCEPT
                 !.pc = "claim",
                 !.awaited = Pending,
                 !.claims = Append(@, [token |-> collector.token,
                                       read |-> Len(collector.reads),
                                       submitted |-> FALSE,
                                       confirmed |-> FALSE])]
         ELSE NextCheck(collector)
  /\ UNCHANGED <<solprismVars, manager>>

\* writeContract resolves with the transaction hash: the claim is submitted
\* and waitForTransactionReceipt is called
ClaimSubmitted ==
  /\ collector.pc = "claim"
  /\ collector' = [collector EXCEPT
       !.pc = "receipt",
       !.claims[Len(collector.claims)].submitted = TRUE]
  /\ UNCHANGED <<solprismVars, manager>>

\* waitForTransactionReceipt resolves: claimWETHFees / claimTokenFees returns
\* the hash
ClaimConfirmed ==
  /\ collector.pc = "receipt"
  /\ collector' = [collector EXCEPT
       !.pc = "awaitClaim",
       !.claims[Len(collector.claims)].confirmed = TRUE,
       !.awaited = Fulfilled("0xhash")]
  /\ UNCHANGED <<solprismVars, manager>>

\* Mutant of ClaimReturned: a failed claim is caught and logged, and the loop
\* goes on with the next token
ClaimReturned_Continues ==
  /\ collector.pc = "awaitClaim"
  /\ collector' =
       IF collector.awaited.kind = "rejected"
         THEN NextCheck(collector)
         ELSE NextCheck([collector EXCEPT
                !.result =
                  IF collector.token = WETH_ADDRESS /\ Len(collector.reads) = 1
                    THEN [@ EXCEPT
                            !.wethClaimed = TRUE,
                            !.wethAmount = formatEther(
                              collector.reads[Len(collector.reads)].answer[1])]
                    ELSE [@ EXCEPT !.tokensClaimed =
                                     Append(@, collector.token)]])
  /\ UNCHANGED <<solprismVars, manager>>

\* collectAllFees goes on after await claimWETHFees() / claimTokenFees(): a
\* rejection is not caught and rejects collectAllFees; otherwise the result
\* object is updated and the loop goes on
ClaimReturned ==
  /\ collector.pc = "awaitClaim"
  /\ collector' =
       IF collector.awaited.kind = "rejected"
         THEN [collector EXCEPT
                 !.pc = "done", !.outcome = Rejected(collector.awaited.error)]
         ELSE NextCheck([collector EXCEPT
                !.result =
                  IF collector.token = WETH_ADDRESS /\ Len(collector.reads) = 1
                    THEN [@ EXCEPT
                            !.wethClaimed = TRUE,
                            !.wethAmount = formatEther(
                              collector.reads[Len(collector.reads)].answer[1])]
                    ELSE [@ EXCEPT !.tokensClaimed =
                                     Append(@, collector.token)]])
  /\ UNCHANGED <<solprismVars, manager>>

\* readContract, writeContract or waitForTransactionReceipt rejects with e:
\* the check or claim method that awaits it rejects with e
FeeCallRejected(e) ==
  /\ collector.pc \in {"check", "claim", "receipt"}
  /\ collector' = [collector EXCEPT
       !.pc = IF collector.pc = "check" THEN "awaitCheck" ELSE "awaitClaim",
       !.failed = collector.pc,
       !.awaited = Rejected(e)]
  /\ UNCHANGED <<solprismVars, manager>>

NextFees ==
  \/ \E l \in TokenLists : CollectAllFees(l)
  \/ \E n \in FeeAmounts : CheckResolved(n)
  \/ CheckReturned
  \/ ClaimSubmitted
  \/ ClaimConfirmed
  \/ ClaimReturned
  \/ \E e \in FeeErrors : FeeCallRejected(e)

\* One collectAllFees call of a ClawnchFeeCollector
SpecFees == Init /\ [][NextFees]_vars

(* --------------------------- TreasuryManager --------------------------- *)

\* config.runwayAlert.thresholdDays
ThresholdDays == {30, 60}
\* config.wallets.solana: a base58 public key, or a string new PublicKey
\* refuses
SolanaWallets == {"So11111111111111111111111111111111111111112", "not-a-key"}
IsPublicKey(str) == str # "not-a-key"
\* Amounts getBalance answers, in wei and in lamports
BalanceAmounts == {0, 5}
BalanceErrors == {"RpcUnavailable"}
\* monthlyBurnRateUSD arguments, 0 being getStatus' default
BurnRates == {-500, 0, 500, 1000}
\* totalBalanceUSD arguments, each a multiple of every positive burn rate so
\* that the quotient is exact
TotalBalances == {-1000, 0, 1000, 2000}

\* A JavaScript number that is an integer or Infinity
Finite(n) == [infinite |-> FALSE, n |-> n]
Infinity == [infinite |-> TRUE, n |-> 0]
\* x < y for a number x and an integer y
LessThan(x, y) == ~x.infinite /\ x.n < y
\* x.toFixed(1) for a number x
toFixed1(x) == IF x.infinite THEN "Infinity" ELSE ToString(x.n) \o ".0"

\* new TreasuryManager(config)
TreasuryManager(thresholdDays, solana) ==
  /\ manager.pc = "unconstructed"
  /\ manager' = [NoManager EXCEPT
       !.pc = "idle", !.thresholdDays = thresholdDays, !.solana = solana]
  /\ UNCHANGED <<solprismVars, collector>>

\* The TreasuryBalance getBaseETHBalance / getSolanaSOLBalance returns
TreasuryBalance(chainName, token, amount) ==
  [chain |-> chainName, token |-> token, amount |-> amount, usdValue |-> 0,
   lastUpdated |-> clock]

\* Mutant of calculateRunway: a zero balance with a positive burn rate gives
\* zero days
calculateRunway_ZeroBalanceZeroDays(m, totalBalanceUSD, monthlyBurnRateUSD) ==
  [totalBalanceUSD |-> totalBalanceUSD,
   monthlyBurnRateUSD |-> monthlyBurnRateUSD,
   daysRemaining |->
     IF totalBalanceUSD >= 0 /\ monthlyBurnRateUSD > 0
       THEN Finite((totalBalanceUSD \div monthlyBurnRateUSD) * 30)
       ELSE Infinity,
   alertThreshold |-> m.thresholdDays,
   lastCalculated |-> clock]

\* calculateRunway(totalBalanceUSD, monthlyBurnRateUSD) of manager m
calculateRunway(m, totalBalanceUSD, monthlyBurnRateUSD) ==
  [totalBalanceUSD |-> totalBalanceUSD,
   monthlyBurnRateUSD |-> monthlyBurnRateUSD,
   daysRemaining |->
     IF totalBalanceUSD > 0 /\ monthlyBurnRateUSD > 0
       THEN Finite((totalBalanceUSD \div monthlyBurnRateUSD) * 30)
       ELSE Infinity,
   alertThreshold |-> m.thresholdDays,
   lastCalculated |-> clock]

\* balances.reduce((sum, b) => sum + b.usdValue, 0)
RECURSIVE SumUsdValue(_)
SumUsdValue(balances) ==
  IF balances = <<>> THEN 0
  ELSE SumUsdValue(SubSeq(balances, 1, Len(balances) - 1))
         + balances[Len(balances)].usdValue

\* The alert line; "(!)" stands for the warning sign
LowRunwayAlert(daysRemaining) ==
  "(!)  LOW RUNWAY: Only " \o toFixed1(daysRemaining) \o " days remaining!"

\* getStatus after getAllBalances has returned balances
Status(m, balances) ==
  LET runway == calculateRunway(m, SumUsdValue(balances), m.monthlyBurnRateUSD)
  IN [balances |-> balances,
      runway |-> runway,
      alerts |-> IF LessThan(runway.daysRemaining, m.thresholdDays)
                   THEN <<LowRunwayAlert(runway.daysRemaining)>>
                   ELSE <<>>]

\* What new PublicKey throws on a string that is not a base58 key
InvalidPublicKey == "Non-base58 character"

\* getAllBalances returns balances: its promise is fulfilled. getStatus, which
\* awaits it, goes on in a later job.
Returned(m, balances) ==
  IF m.op = "getStatus"
    THEN [m EXCEPT !.pc = "awaitBalances", !.balances = balances,
                   !.awaited = Fulfilled(balances)]
    ELSE [m EXCEPT !.pc = "done", !.balances = balances,
                   !.awaited = NotCalled,
                   !.outcome = Fulfilled(balances)]

\* The second try block of getAllBalances calls getSolanaSOLBalance: new
\* PublicKey throws on a bad key and the promise returned is rejected with no
\* RPC call made, otherwise solanaConnection.getBalance is called
SolanaRead(m) ==
  IF IsPublicKey(m.solana)
    THEN [m EXCEPT !.pc = "solana", !.awaited = Pending]
    ELSE [m EXCEPT !.pc = "awaitSolana",
                   !.awaited = Rejected(InvalidPublicKey)]

\* getAllBalances(), up to the await of baseClient.getBalance
GetAllBalances ==
  /\ manager.pc = "idle"
  /\ manager' = [manager EXCEPT
       !.pc = "base", !.op = "getAllBalances", !.awaited = Pending,
       !.outcome = Pending]
  /\ UNCHANGED <<solprismVars, collector>>

\* getStatus(monthlyBurnRateUSD), up to the same await
GetStatus(monthlyBurnRateUSD) ==
  /\ manager.pc = "idle"
  /\ manager' = [manager EXCEPT
       !.pc = "base", !.op = "getStatus",
       !.monthlyBurnRateUSD = monthlyBurnRateUSD, !.awaited = Pending,
       !.outcome = Pending]
  /\ UNCHANGED <<solprismVars, collector>>

\* manager.calculateRunway(totalBalanceUSD, monthlyBurnRateUSD), called
\* directly
CalculateRunway(totalBalanceUSD, monthlyBurnRateUSD) ==
  /\ manager.pc = "idle"
  /\ manager' = [manager EXCEPT
       !.pc = "done", !.op = "calculateRunway",
       !.monthlyBurnRateUSD = monthlyBurnRateUSD,
       !.outcome = Fulfilled(calculateRunway(manager, totalBalanceUSD,
                                             monthlyBurnRateUSD))]
  /\ UNCHANGED <<solprismVars, collector>>

\* baseClient.getBalance resolves: getBaseETHBalance returns the balance,
\* stamped with the time it reads now
BaseResolved(balance) ==
  /\ manager.pc = "base"
  /\ manager' = [manager EXCEPT
       !.pc = "awaitBase",
       !.awaited = Fulfilled(TreasuryBalance("base", "ETH", balance))]
  /\ UNCHANGED <<solprismVars, collector>>

\* baseClient.getBalance rejects: getBaseETHBalance rejects with the error
BaseRejected(e) ==
  /\ manager.pc = "base"
  /\ manager' = [manager EXCEPT !.pc = "awaitBase", !.awaited = Rejected(e)]
  /\ UNCHANGED <<solprismVars, collector>>

\* Mutant of BaseReturned: without the first try block a failed read rejects
\* getAllBalances
BaseReturned_Propagates ==
  /\ manager.pc = "awaitBase"
  /\ manager' =
       IF manager.awaited.kind = "fulfilled"
         THEN SolanaRead([manager EXCEPT
                !.reads = Append(@, [chain |-> "base", ok |-> TRUE]),
                !.balances = Append(@, manager.awaited.value[1])])
         ELSE [manager EXCEPT
                !.pc = "done",
                !.reads = Append(@, [chain |-> "base", ok |-> FALSE]),
                !.awaited = NotCalled,
                !.outcome = Rejected(manager.awaited.error)]
  /\ UNCHANGED <<solprismVars, collector>>

\* getAllBalances goes on after await getBaseETHBalance(): the balance is
\* pushed, or the first catch logs the error; then the second try block
BaseReturned ==
  /\ manager.pc = "awaitBase"
  /\ manager' =
       IF manager.awaited.kind = "fulfilled"
         THEN SolanaRead([manager EXCEPT
                !.reads = Append(@, [chain |-> "base", ok |-> TRUE]),
                !.balances = Append(@, manager.awaited.value[1])])
         ELSE SolanaRead([manager EXCEPT
                !.reads = Append(@, [chain |-> "base", ok |-> FALSE])])
  /\ UNCHANGED <<solprismVars, collector>>

\* solanaConnection.getBalance resolves: getSolanaSOLBalance returns the
\* balance, stamped with the time it reads now
SolanaResolved(balance) ==
  /\ manager.pc = "solana"
  /\ manager' = [manager EXCEPT
       !.pc = "awaitSolana",
       !.awaited = Fulfilled(TreasuryBalance("solana", "SOL", balance))]
  /\ UNCHANGED <<solprismVars, collector>>

\* solanaConnection.getBalance rejects: getSolanaSOLBalance rejects
SolanaRejected(e) ==
  /\ manager.pc = "solana"
  /\ manager' = [manager EXCEPT !.pc = "awaitSolana", !.awaited = Rejected(e)]
  /\ UNCHANGED <<solprismVars, collector>>

\* getAllBalances goes on after await getSolanaSOLBalance(): the balance is
\* pushed, or the second catch logs the error; then return balances
SolanaReturned ==
  /\ manager.pc = "awaitSolana"
  /\ manager' =
       IF manager.awaited.kind = "fulfilled"
         THEN Returned(
                [manager EXCEPT
                   !.reads = Append(@, [chain |-> "solana", ok |-> TRUE])],
                Append(manager.balances, manager.awaited.value[1]))
         ELSE Returned(
                [manager EXCEPT
                   !.reads = Append(@, [chain |-> "solana", ok |-> FALSE])],
                manager.balances)
  /\ UNCHANGED <<solprismVars, collector>>

\* getStatus goes on after await getAllBalances(): the total, the runway,
\* stamped with the time it reads now, and the alerts
BalancesReturned ==
  /\ manager.pc = "awaitBalances"
  /\ manager' = [manager EXCEPT
       !.pc = "done",
       !.awaited = NotCalled,
       !.outcome = Fulfilled(Status(manager, manager.awaited.value[1]))]
  /\ UNCHANGED <<solprismVars, collector>>

NextTreasury ==
  \/ \E d \in ThresholdDays, k \in SolanaWallets : TreasuryManager(d, k)
  \/ GetAllBalances
  \/ \E b \in BurnRates : GetStatus(b)
  \/ \E total \in TotalBalances, b \in BurnRates : CalculateRunway(total, b)
  \/ \E n \in BalanceAmounts : BaseResolved(n)
  \/ \E e \in BalanceErrors : BaseRejected(e)
  \/ BaseReturned
  \/ \E n \in BalanceAmounts : SolanaResolved(n)
  \/ \E e \in BalanceErrors : SolanaRejected(e)
  \/ SolanaReturned
  \/ BalancesReturned
  \/ Tick

\* One call on a TreasuryManager, the wall clock moving on between its steps
SpecTreasury == Init /\ [][NextTreasury]_vars

(* ---------------------------- specification ---------------------------- *)

\* initialize, as long as the behaviour may issue one more
InitializeOnce(w) == init.issued < MaxInits /\ Initialize(w)

Next ==
  \/ \E w \in Wallets : InitializeOnce(w)
  \/ IsAgentRegisteredResolved
  \/ RegisterAgentResolved
  \/ \E e \in RegistrationErrors : InitializeRejected(e)
  \/ \E c \in CallIds, r \in Reasonings, a \in Actions : ExecuteAudited(c, r, a)
  \/ \E c \in CallIds : CommitResolved(c)
  \/ \E c \in CallIds, e \in CommitErrors : CommitRejected(c, e)
  \/ \E c \in CallIds : ActionResolved(c)
  \/ \E c \in CallIds : ActionRejected(c)
  \/ \E c \in CallIds : RevealResolved(c)
  \/ \E c \in CallIds, e \in RevealErrors : RevealRejected(c, e)

\* The orchestrator with the wall clock standing still: every timestamp reads
\* the same instant.
Spec == Init /\ [][Next]_vars

\* The same with the wall clock moving on between steps
NextTimed == Next \/ Tick
SpecTimed == Init /\ [][NextTimed]_vars

\* No call of any method is in flight
Quiescent ==
  /\ init.pc = "idle"
  /\ \A c \in CallIds : calls[c].pc \in {"idle", "done"}
  /\ verify.pc = "idle"
  /\ reads.pc = "idle"

\* The caller holds no result of a query method
HoldsNothing ==
  verify = IdleVerify /\ reads = IdleRead /\ snapshot = NoSnapshot
    /\ report = NoReport

\* The caller lets go of the results it holds
Discard ==
  /\ Quiescent
  /\ ~HoldsNothing
  /\ verify' = IdleVerify
  /\ reads' = IdleRead
  /\ snapshot' = NoSnapshot
  /\ report' = NoReport
  /\ UNCHANGED <<config, wallet, registered, actionLog, calls, init, clock,
                 chain, clientCalls, actionsRun, treasuryVars>>

\* A session: one caller uses every public method of the instance, awaiting
\* each call before it makes the next. It lets go of a method's result before
\* its next call, except that it keeps an array getSessionLog returned while
\* it changes it and calls getSessionLog again.
SessionInitialize(w) ==
  Quiescent /\ HoldsNothing /\ init.issued < MaxSessionInits /\ Initialize(w)
SessionExecuteAudited(c, r, a) ==
  Quiescent /\ HoldsNothing /\ ExecuteAudited(c, r, a)
SessionVerifyAction(a, r) == Quiescent /\ HoldsNothing /\ VerifyAction(a, r)
SessionGetAccountabilityScore ==
  Quiescent /\ HoldsNothing /\ GetAccountabilityScore
SessionGetAuditHistory ==
  Quiescent /\ HoldsNothing /\ GetAuditHistory(DefaultHistoryLimit)
SessionGetSessionLog ==
  /\ Quiescent
  /\ verify = IdleVerify /\ reads = IdleRead /\ report = NoReport
  /\ snapshot.issued < MaxQueries
  /\ GetSessionLog
SessionMutateSnapshot(m) ==
  Quiescent /\ snapshot.mutations < MaxQueries /\ MutateSnapshot(m)
SessionFormatAuditReport == Quiescent /\ HoldsNothing /\ FormatAuditReport

NextSession ==
  \/ \E w \in Wallets : SessionInitialize(w)
  \/ IsAgentRegisteredResolved
  \/ RegisterAgentResolved
  \/ \E e \in RegistrationErrors : InitializeRejected(e)
  \/ \E c \in CallIds, r \in Reasonings, a \in Actions :
       SessionExecuteAudited(c, r, a)
  \/ \E c \in CallIds : CommitResolved(c)
  \/ \E c \in CallIds, e \in CommitErrors : CommitRejected(c, e)
  \/ \E c \in CallIds : ActionResolved(c)
  \/ \E c \in CallIds : ActionRejected(c)
  \/ \E c \in CallIds : RevealResolved(c)
  \/ \E c \in CallIds, e \in RevealErrors : RevealRejected(c, e)
  \/ \E a \in VerifyAddresses, r \in Reasonings : SessionVerifyAction(a, r)
  \/ VerifyResolved
  \/ \E e \in VerifyErrors : VerifyRejected(e)
  \/ SessionGetAccountabilityScore
  \/ SessionGetAuditHistory
  \/ ReadResolved
  \/ \E e \in ReadErrors : ReadRejected(e)
  \/ SessionGetSessionLog
  \/ \E m \in Mutations : SessionMutateSnapshot(m)
  \/ SessionFormatAuditReport
  \/ Discard

SpecSession == Init /\ [][NextSession]_vars

\* Reasonings of every shape, handed to the two methods that convert them:
\* one executeAudited call and one verifyAction call, made one after the other
TraceExecuteAudited(r, a) == Quiescent /\ ExecuteAudited(1, r, a)
TraceVerifyAction(r) ==
  Quiescent /\ HoldsNothing /\ VerifyAction(AddressOf(1), r)

NextTrace ==
  \/ \E w \in Wallets : InitializeOnce(w)
  \/ IsAgentRegisteredResolved
  \/ RegisterAgentResolved
  \/ \E e \in RegistrationErrors : InitializeRejected(e)
  \/ \E r \in TraceReasonings, a \in Actions : TraceExecuteAudited(r, a)
  \/ CommitResolved(1)
  \/ \E e \in CommitErrors : CommitRejected(1, e)
  \/ ActionResolved(1)
  \/ ActionRejected(1)
  \/ RevealResolved(1)
  \/ \E e \in RevealErrors : RevealRejected(1, e)
  \/ \E r \in TraceReasonings : TraceVerifyAction(r)
  \/ VerifyResolved
  \/ \E e \in VerifyErrors : VerifyRejected(e)

SpecTrace == Init /\ [][NextTrace]_vars

\* Concurrent calls that can be told apart: call c is given a reasoning and an
\* action of its own, so that a value of one call found in another shows
OwnReasoning(c) ==
  [action |-> "transfer",
   rationale |-> "payment " \o ToString(c),
   risk |-> [level |-> "medium", factors |-> <<>>],
   expectedOutcome |-> "paid " \o ToString(c),
   portfolioContext |-> Absent,
   constraints |-> Absent]
OwnActions(c) ==
  { [kind |-> "resolve", value |-> "receipt " \o ToString(c), error |-> ""],
    [kind |-> "reject", value |-> "", error |-> "InsufficientFunds"] }
OwnExecuteAudited(c, a) == ExecuteAudited(c, OwnReasoning(c), a)

NextOwn ==
  \/ \E w \in Wallets : InitializeOnce(w)
  \/ IsAgentRegisteredResolved
  \/ RegisterAgentResolved
  \/ \E e \in RegistrationErrors : InitializeRejected(e)
  \/ \E c \in CallIds : \E a \in OwnActions(c) : OwnExecuteAudited(c, a)
  \/ \E c \in CallIds : CommitResolved(c)
  \/ \E c \in CallIds, e \in CommitErrors : CommitRejected(c, e)
  \/ \E c \in CallIds : ActionResolved(c)
  \/ \E c \in CallIds : ActionRejected(c)
  \/ \E c \in CallIds : RevealResolved(c)
  \/ \E c \in CallIds, e \in RevealErrors : RevealRejected(c, e)

SpecOwn == Init /\ [][NextOwn]_vars

\* A session whose caller also writes to the record objects it was handed:
\* the ones executeAudited returned and the elements of the arrays
\* getSessionLog returned
SessionMutateReturnedRecord(c) == Quiescent /\ MutateReturnedRecord(c)
SessionMutateSnapshotElement(i) == Quiescent /\ MutateSnapshotElement(i)

NextCaller ==
  \/ \E w \in Wallets : SessionInitialize(w)
  \/ IsAgentRegisteredResolved
  \/ RegisterAgentResolved
  \/ \E e \in RegistrationErrors : InitializeRejected(e)
  \/ \E c \in CallIds, r \in Reasonings, a \in Actions :
       SessionExecuteAudited(c, r, a)
  \/ \E c \in CallIds : CommitResolved(c)
  \/ \E c \in CallIds, e \in CommitErrors : CommitRejected(c, e)
  \/ \E c \in CallIds : ActionResolved(c)
  \/ \E c \in CallIds : ActionRejected(c)
  \/ \E c \in CallIds : RevealResolved(c)
  \/ \E c \in CallIds, e \in RevealErrors : RevealRejected(c, e)
  \/ SessionGetSessionLog
  \/ SessionFormatAuditReport
  \/ Discard
  \/ \E c \in CallIds : SessionMutateReturnedRecord(c)
  \/ \E i \in CallIds : SessionMutateSnapshotElement(i)

SpecCaller == Init /\ [][NextCaller]_vars


(* ------------------------------- claims -------------------------------- *)

\* The records of the session log that carry call c's commit result
Appended(c) == {i \in DOMAIN actionLog : actionLog[i].commit = calls[c].commit}

\* A call that has settled takes no further step
Settled(c) == calls[c].pc = "done" => calls'[c] = calls[c]

\* Call c is issued in this step
IssuedNow(c) == calls[c].pc = "idle" /\ calls'[c].pc # "idle"

\* C1: executeAudited on an instance on which initialize was never called
\* rejects with the not-initialized error; for that call commitReasoning, the
\* action and revealReasoning are invoked zero times, no client call is made,
\* and the session log is unchanged.
C1_UninitializedStep(c) ==
  /\ (IssuedNow(c) /\ init.issued = 0) =>
       /\ calls'[c].pc = "done"
       /\ calls'[c].outcome = Rejected(NotInitialized)
       /\ calls'[c].nCommit = 0 /\ calls'[c].commitPromise = NotCalled
       /\ calls'[c].nAction = 0 /\ calls'[c].actionPromise = NotCalled
       /\ calls'[c].nReveal = 0 /\ calls'[c].revealPromise = NotCalled
       /\ UNCHANGED <<actionLog, clientCalls, chain, actionsRun, treasuryVars>>
  /\ Settled(c)
C1_UninitializedFailsWithoutCalls ==
  [][\A c \in CallIds : C1_UninitializedStep(c)]_vars

C1_Witness ==
  \E c \in CallIds :
    /\ init.issued = 0
    /\ calls[c].pc = "done"
    /\ calls[c].outcome = Rejected(NotInitialized)

\* C2: when the caller's action rejects, revealReasoning is not invoked for the
\* call, the call has put nothing in the session log and the step that rejects
\* leaves the log as it was, and executeAudited rejects with the very error
\* value the action raised.
C2_ActionRejectedStep(c) ==
  /\ calls'[c].actionPromise.kind = "rejected" =>
       /\ calls'[c].pc = "done"
       /\ calls'[c].outcome = Rejected(calls'[c].actionPromise.error)
       /\ calls'[c].actionPromise.error = calls'[c].action.error
       /\ calls'[c].nReveal = 0 /\ calls'[c].revealPromise = NotCalled
       /\ Appended(c)' = {}
       /\ calls[c].actionPromise.kind # "rejected" =>
            /\ actionLog' = actionLog
            /\ clientCalls'.revealReasoning = clientCalls.revealReasoning
  /\ Settled(c)
C2_ActionErrorPropagates ==
  [][\A c \in CallIds : C2_ActionRejectedStep(c)]_vars

C2_Witness ==
  \E c \in CallIds :
    /\ calls[c].actionPromise.kind = "rejected"
    /\ calls[c].outcome = Rejected("InsufficientFunds")
    /\ Len(actionLog) = 1

\* C3: when commitReasoning fails no further step runs: the action and
\* revealReasoning are never invoked, nothing is appended to the session log,
\* and executeAudited rejects with the commit error unmodified.
C3_CommitRejectedStep(c) ==
  /\ calls'[c].commitPromise.kind = "rejected" =>
       /\ calls'[c].pc = "done"
       /\ calls'[c].outcome = Rejected(calls'[c].commitPromise.error)
       /\ calls'[c].nAction = 0 /\ calls'[c].actionPromise = NotCalled
       /\ calls'[c].nReveal = 0 /\ calls'[c].revealPromise = NotCalled
       /\ c \notin actionsRun'
       /\ Appended(c)' = {}
       /\ calls[c].commitPromise.kind # "rejected" =>
            UNCHANGED <<actionLog, clientCalls, actionsRun, treasuryVars>>
  /\ Settled(c)
C3_CommitFailureStopsTheCall ==
  [][\A c \in CallIds : C3_CommitRejectedStep(c)]_vars

C3_Witness ==
  \E c \in CallIds :
    /\ calls[c].commitPromise = Rejected("CommitFailed")
    /\ calls[c].pc = "done"
    /\ Len(actionLog) = 1

\* C4: when commit and action succeed and revealReasoning fails, executeAudited
\* rejects with the reveal error unmodified and no record of the call is in the
\* session log, although the action has taken effect.
C4_RevealRejectedStep(c) ==
  /\ calls'[c].revealPromise.kind = "rejected" =>
       /\ calls'[c].pc = "done"
       /\ calls'[c].outcome = Rejected(calls'[c].revealPromise.error)
       /\ calls'[c].commitPromise.kind = "fulfilled"
       /\ calls'[c].actionPromise.kind = "fulfilled"
       /\ c \in actionsRun'
       /\ Appended(c)' = {}
       /\ calls[c].revealPromise.kind # "rejected" => actionLog' = actionLog
  /\ Settled(c)
C4_RevealFailureLeavesLog ==
  [][\A c \in CallIds : C4_RevealRejectedStep(c)]_vars

C4_Witness ==
  \E c \in CallIds :
    /\ calls[c].revealPromise = Rejected("RevealFailed")
    /\ calls[c].outcome = Rejected("RevealFailed")
    /\ c \in actionsRun
    /\ Len(actionLog) = 1


\* C5: when commit, action and reveal all succeed, executeAudited returns a
\* record holding the action's value, the commit and reveal results the client
\* returned to this call and the explorer URL base/commitment/address, and the
\* session log grows by exactly that record, placed last.
C5_SuccessStep(c) ==
  /\ calls'[c].revealPromise.kind = "fulfilled" =>
       /\ calls'[c].pc = "done"
       /\ calls'[c].outcome.kind = "fulfilled"
  /\ (calls[c].outcome.kind = "pending" /\ calls'[c].outcome.kind = "fulfilled") =>
       LET r == calls'[c].outcome.value[1]
       IN /\ calls'[c].commitPromise.kind = "fulfilled"
          /\ calls'[c].actionPromise.kind = "fulfilled"
          /\ calls'[c].revealPromise.kind = "fulfilled"
          /\ r.reasoning = calls[c].reasoning
          /\ r.actionResult = calls[c].action.value
          /\ r.actionResult = calls'[c].actionPromise.value[1]
          /\ r.commit = calls'[c].commitPromise.value[1]
          /\ r.reveal = calls'[c].revealPromise.value[1]
          /\ r.explorerUrl =
               SOLPRISM_EXPLORER \o "/commitment/" \o r.commit.commitmentAddress
          /\ actionLog' = Append(actionLog, r)
  /\ Settled(c)
C5_SuccessReturnsAndAppendsRecord ==
  [][\A c \in CallIds : C5_SuccessStep(c)]_vars

C5_Witness ==
  \E c \in CallIds :
    /\ calls[c].outcome.kind = "fulfilled"
    /\ calls[c].outcome.value[1].actionResult = "ok"
    /\ Len(actionLog) = 2
    /\ actionLog[2] = calls[c].outcome.value[1]
    /\ actionLog[1] # actionLog[2]

\* The commitment account call c's commitReasoning created
CommitmentOf(c) ==
  [commitmentAddress |-> calls[c].commit.commitmentAddress,
   commitmentHash |-> calls[c].commit.commitmentHash,
   agent |-> calls[c].commitArgs.wallet]

\* C6: within one executeAudited call the action is started only after
\* commitReasoning has returned successfully (the commitment exists), and
\* revealReasoning is started only after the action has returned successfully.
C6_StepsStrictlyOrdered ==
  \A c \in CallIds :
    /\ (calls[c].nAction > 0 \/ calls[c].actionPromise # NotCalled) =>
         /\ calls[c].commitPromise.kind = "fulfilled"
         /\ CommitmentOf(c) \in chain.commitments
    /\ (calls[c].nReveal > 0 \/ calls[c].revealPromise # NotCalled) =>
         /\ calls[c].actionPromise.kind = "fulfilled"
         /\ c \in actionsRun

C6_Witness ==
  \E c, d \in CallIds :
    /\ calls[c].revealPromise.kind = "pending"
    /\ calls[d].actionPromise.kind = "pending"
    /\ calls[d].commitPromise.kind = "fulfilled"

\* Calls made on the client by the executeAudited calls in S, per method
RECURSIVE Commits(_)
Commits(S) ==
  IF S = {} THEN 0
  ELSE LET c == CHOOSE x \in S : TRUE IN calls[c].nCommit + Commits(S \ {c})
RECURSIVE Reveals(_)
Reveals(S) ==
  IF S = {} THEN 0
  ELSE LET c == CHOOSE x \in S : TRUE IN calls[c].nReveal + Reveals(S \ {c})

\* C7: when the action fails after a successful commit, the call makes no
\* further client call, and the commitment it created is still held by the
\* program, unrevealed, after executeAudited has rejected.
C7_FailedActionKeepsCommitment ==
  /\ clientCalls.commitReasoning = Commits(CallIds)
  /\ clientCalls.revealReasoning = Reveals(CallIds)
  /\ \A c \in CallIds :
       calls[c].actionPromise.kind = "rejected" =>
         /\ calls[c].pc = "done"
         /\ calls[c].outcome.kind = "rejected"
         /\ calls[c].nCommit = 1
         /\ calls[c].nReveal = 0
         /\ CommitmentOf(c) \in chain.commitments
         /\ calls[c].commit.commitmentAddress \notin chain.revealed

C7_Witness ==
  \E c \in CallIds :
    /\ calls[c].actionPromise.kind = "rejected"
    /\ calls[c].outcome = Rejected("InsufficientFunds")
    /\ CommitmentOf(c) \in chain.commitments
    /\ Cardinality(chain.commitments) = 2

\* C8, as claimed: executeAudited fails with the not-initialized error, before
\* any client call, whenever isReady() is false. isReady() never turns false
\* again, so a call that was issued and finds isReady() false now was issued
\* with isReady() false.
C8_NotReadyAlwaysFails ==
  \A c \in CallIds :
    (calls[c].pc # "idle" /\ ~isReady) =>
      /\ calls[c].outcome = Rejected(NotInitialized)
      /\ calls[c].nCommit = 0

\* Calls of revealReasoning made with the commitment address a
RevealsWith(a) ==
  Reveals({c \in CallIds : calls[c].revealArgs.commitmentAddress = a})

\* C9: for every commitment commitReasoning returned, revealReasoning is
\* invoked at most once with its address, and only if the action wrapped by
\* the call that made the commitment completed without error.
C9_RevealAtMostOnceAfterSuccess ==
  /\ \A k \in chain.commitments :
       /\ RevealsWith(k.commitmentAddress) <= 1
       /\ RevealsWith(k.commitmentAddress) = 1 =>
            \E c \in CallIds :
              /\ calls[c].commit.commitmentAddress = k.commitmentAddress
              /\ calls[c].revealArgs.commitmentAddress = k.commitmentAddress
              /\ calls[c].actionPromise.kind = "fulfilled"
  /\ \A c \in CallIds :
       calls[c].nReveal > 0 =>
         /\ calls[c].revealArgs.commitmentAddress = calls[c].commit.commitmentAddress
         /\ CommitmentOf(c) \in chain.commitments

C9_Witness ==
  \E c, d \in CallIds :
    /\ calls[c].nReveal = 1
    /\ RevealsWith(calls[c].commit.commitmentAddress) = 1
    /\ calls[d].actionPromise.kind = "rejected"
    /\ RevealsWith(calls[d].commit.commitmentAddress) = 0

\* C10: no step is retried: one executeAudited call invokes commitReasoning,
\* the action and revealReasoning at most once each, whichever of them fail.
C10_NoStepRetried ==
  /\ \A c \in CallIds :
       /\ calls[c].nCommit <= 1
       /\ calls[c].nAction <= 1
       /\ calls[c].nReveal <= 1
       /\ calls[c].pc = "done" /\ calls[c].commitPromise.kind = "rejected" =>
            calls[c].nCommit = 1
  /\ clientCalls.commitReasoning <= Cardinality({c \in CallIds : calls[c].pc # "idle"})
  /\ clientCalls.revealReasoning <= Cardinality({c \in CallIds : calls[c].pc # "idle"})

C10_Witness ==
  \E c, d \in CallIds :
    /\ calls[c].commitPromise.kind = "rejected" /\ calls[c].nCommit = 1
    /\ calls[d].revealPromise.kind = "rejected" /\ calls[d].nReveal = 1
    /\ calls[d].nAction = 1

\* C11: verifyAction works on an instance that was never initialized: it does
\* not fail with the not-initialized error, calls client.verifyReasoning
\* exactly once and makes no commit, reveal or registration call, returns the
\* client's valid flag and message as they are, and leaves the wallet, the
\* registered flag and the session log as they were.
C11_VerifyNeedsNoInitialize ==
  (init.issued = 0 /\ verify.issued > 0) =>
    /\ verify.outcome # Rejected(NotInitialized)
    /\ verify.nVerify = 1
    /\ clientCalls = [isAgentRegistered |-> 0, registerAgent |-> 0,
                      commitReasoning |-> 0, revealReasoning |-> 0]
    /\ verify.outcome.kind = "fulfilled" =>
         /\ verify.promise.kind = "fulfilled"
         /\ verify.outcome.value[1].valid = verify.promise.value[1].valid
         /\ verify.outcome.value[1].message = verify.promise.value[1].message
    /\ verify.outcome.kind = "rejected" => verify.outcome = verify.promise
    /\ wallet = NoWallet
    /\ registered = FALSE
    /\ actionLog = <<>>

C11_Witness ==
  /\ init.issued = 0
  /\ verify.nVerify = 1
  /\ verify.outcome.kind = "fulfilled"
  /\ verify.outcome.value[1].message = "Reasoning does not match commitment"
  /\ wallet = NoWallet

\* C12: getSessionLog is idempotent and defensive: two calls with no append
\* between them return equal sequences, and adding to, removing from or
\* reordering a returned array changes neither the session log nor what a
\* later getSessionLog call returns.
C12_SessionLogCopyIndependent ==
  /\ (snapshot.issued >= 2 /\ snapshot.prior.appends = snapshot.appends) =>
       snapshot.returned = snapshot.prior.returned
  /\ (snapshot.issued >= 1 /\ snapshot.appends = Appends) =>
       actionLog = snapshot.returned

C12_Witness ==
  /\ snapshot.issued = 2
  /\ snapshot.prior.appends = snapshot.appends
  /\ Len(snapshot.prior.returned) = 2
  /\ snapshot.prior.items # snapshot.prior.returned
  /\ snapshot.returned = snapshot.prior.returned
  /\ snapshot.items # snapshot.returned

\* The lines of a string: the pieces between its line feeds, in order
LinesOf(str) ==
  LET breaks == {i \in 1..Len(str) : SubSeq(str, i, i) = "\n"}
      ends == breaks \cup {Len(str) + 1}
      EndOf(k) == CHOOSE b \in ends : Cardinality({x \in breaks : x < b}) = k - 1
      StartOf(k) == IF k = 1 THEN 1 ELSE EndOf(k - 1) + 1
  IN [k \in 1..Cardinality(ends) |-> SubSeq(str, StartOf(k), EndOf(k) - 1)]

StartsWith(str, prefix) ==
  Len(str) >= Len(prefix) /\ SubSeq(str, 1, Len(prefix)) = prefix

\* The lines of a report that start with prefix, in the order they stand in
LinesWith(text, prefix) ==
  SelectSeq(LinesOf(text), LAMBDA l : StartsWith(l, prefix))

\* The position of the first line of a report that starts with prefix
FirstLineWith(text, prefix) ==
  CHOOSE i \in DOMAIN LinesOf(text) :
    /\ StartsWith(LinesOf(text)[i], prefix)
    /\ \A j \in 1..(i - 1) : ~StartsWith(LinesOf(text)[j], prefix)

\* C13: formatAuditReport returns 'No audited actions in this session.' while
\* the session log is empty; after N successful executeAudited calls the
\* report holds exactly N record blocks, in the order the records were
\* appended, below a header that shows the agent name and the count N.
C13_ReportListsEveryRecordInOrder ==
  report.issued > 0 =>
    IF Appends = 0
      THEN report.value = "No audited actions in this session."
      ELSE LET opened == LinesWith(report.value, "  +- ")
               closed == LinesWith(report.value, "  += Committed ")
               explorer == LinesWith(report.value, "  |  Explorer: ")
           IN /\ Len(opened) = Appends
              /\ Len(closed) = Appends
              /\ Len(explorer) = Appends
              /\ \A k \in 1..Appends :
                   /\ opened[k] =
                        "  +- " \o (IF actionLog[k].reasoning.action = "rebalance"
                                      THEN "REBALANCE" ELSE "TRANSFER")
                   /\ explorer[k] =
                        "  |  Explorer: https://www.solprism.app/commitment/"
                          \o actionLog[k].commit.commitmentAddress
              /\ LinesWith(report.value, "  Agent: ") = <<"  Agent: Skippy">>
              /\ LinesWith(report.value, "  Actions: ") =
                   <<"  Actions: " \o ToString(Appends)>>
              /\ FirstLineWith(report.value, "  Agent: ")
                   < FirstLineWith(report.value, "  +- ")
              /\ FirstLineWith(report.value, "  Actions: ")
                   < FirstLineWith(report.value, "  +- ")

C13_Witness ==
  /\ report.issued > 0
  /\ Appends = 2
  /\ Len(LinesWith(report.value, "  +- ")) = 2
  /\ actionLog[1].reasoning.action # actionLog[2].reasoning.action

\* formatAuditReport was called before any record was appended
C13_WitnessEmpty ==
  report.issued > 0 /\ Appends = 0 /\ report.value = EmptyReport

\* seq is other with zero or more elements added at its end
Extends(seq, other) ==
  Len(seq) >= Len(other) /\ SubSeq(seq, 1, Len(other)) = other

\* C14: the session log is append-only: whatever operation takes a step
\* (initialize, executeAudited in any outcome, verifyAction, getSessionLog and
\* the use of the array it returned, formatAuditReport,
\* getAccountabilityScore, getAuditHistory), the log after the step is the log
\* before it with zero or more records added at the end.
C14_LogAppendOnly == [][Extends(actionLog', actionLog)]_vars

\* Two records are in the log and every query method has then been used: an
\* initialize was repeated, and the caller has changed an array the log gave it
C14_Witness ==
  /\ Len(actionLog) = 2
  /\ init.issued = 2
  /\ snapshot.mutations > 0
  /\ snapshot.items # actionLog

\* C15: with several executeAudited calls in flight at once, interleaving at
\* every await, every call whose reveal succeeded has exactly one record in
\* the session log, the log holds no other record, and the records stand in
\* the order in which they were appended (the n-th reveal to resolve is the
\* one whose continuation makes the n-th append).
C15_ConcurrentAppendsSafe ==
  /\ \A c \in CallIds :
       calls[c].revealPromise.kind = "fulfilled" =>
         /\ Cardinality(Appended(c)) = 1
         /\ \A i \in Appended(c) : actionLog[i] = calls[c].outcome.value[1]
  /\ Len(actionLog) =
       Cardinality({c \in CallIds : calls[c].revealPromise.kind = "fulfilled"})
  /\ \A i \in DOMAIN actionLog :
       /\ actionLog[i].reveal.signature = "revealTx" \o ToString(i)
       /\ \E c \in CallIds : Appended(c) = {i}

\* Two calls were in flight together and the later one was appended first
C15_Witness ==
  /\ Len(actionLog) = 2
  /\ calls[1].revealPromise.kind = "fulfilled"
  /\ calls[2].revealPromise.kind = "fulfilled"
  /\ actionLog[1] = calls[2].outcome.value[1]
  /\ actionLog[2] = calls[1].outcome.value[1]
  /\ actionLog[1].reveal.signature = "revealTx1"

\* C17: the URI passed to revealReasoning is
\* '{reasoningStorageUri}/{commitmentHash}' when a storage base URI is
\* configured and 'https://www.solprism.app/commitment/{commitmentAddress}'
\* otherwise, built from the configuration and the commit result of the same
\* call and from nothing else.
C17_RevealUriFromConfigAndCommit ==
  \A c \in CallIds :
    calls[c].nReveal > 0 =>
      /\ calls[c].commitPromise.kind = "fulfilled"
      /\ calls[c].revealArgs.reasoningUri =
           IF config.reasoningStorageUri = "ipfs://store"
             THEN "ipfs://store/"
                    \o calls[c].commitPromise.value[1].commitmentHash
             ELSE "https://www.solprism.app/commitment/"
                    \o calls[c].commitPromise.value[1].commitmentAddress

\* Two calls of one instance with a storage base URI revealed two commitments
C17_Witness ==
  /\ config.reasoningStorageUri = "ipfs://store"
  /\ calls[1].nReveal = 1
  /\ calls[2].nReveal = 1
  /\ calls[1].revealArgs.reasoningUri
       = "ipfs://store/rebalance-trace-digest-0123456789abcdef"
  /\ calls[2].revealArgs.reasoningUri
       = "ipfs://store/transfer-trace-digest-0123456789abcdef"

\* A call of an instance without a storage base URI revealed a commitment
C17_WitnessDefault ==
  /\ config.reasoningStorageUri = ""
  /\ calls[2].nReveal = 1
  /\ calls[2].revealArgs.reasoningUri
       = "https://www.solprism.app/commitment/" \o calls[2].commit.commitmentAddress

\* C20: the session log holds completed audit records only: its length is the
\* number of executeAudited calls that returned successfully, every record
\* carries a commit result and a reveal result, and a call that failed at the
\* precondition, the commit, the action or the reveal, or that is still in
\* flight, has no record in it.
C20_LogHoldsCompletedRecordsOnly ==
  /\ Len(actionLog) =
       Cardinality({c \in CallIds : calls[c].outcome.kind = "fulfilled"})
  /\ \A i \in DOMAIN actionLog :
       /\ actionLog[i].commit # NoCommit
       /\ actionLog[i].commit.commitmentAddress # ""
       /\ actionLog[i].reveal # NoReveal
       /\ actionLog[i].reveal.signature # ""
       /\ \E c \in CallIds :
            /\ calls[c].outcome = Fulfilled(actionLog[i])
            /\ calls[c].commitPromise = Fulfilled(actionLog[i].commit)
            /\ calls[c].revealPromise = Fulfilled(actionLog[i].reveal)
  /\ \A c \in CallIds :
       calls[c].outcome.kind # "fulfilled" =>
         /\ Appended(c) = {}
         /\ \A i \in DOMAIN actionLog : actionLog[i].reasoning # calls[c].reasoning
                                          \/ actionLog[i].commit # calls[c].commit

\* One call returned a record while the other failed at its reveal
C20_Witness ==
  /\ Len(actionLog) = 1
  /\ \E c, d \in CallIds :
       /\ calls[c].outcome.kind = "fulfilled"
       /\ calls[d].revealPromise.kind = "rejected"
       /\ calls[d].outcome.kind = "rejected"
       /\ Appended(d) = {}

\* C16: every record in the session log has committed <= executed <= revealed:
\* each timestamp is read after its step has settled, from a clock that never
\* goes back, and no later than the clock reads now; other executeAudited
\* calls running at the same time do not change that.
C16_RecordTimestampsOrdered ==
  \A i \in DOMAIN actionLog :
    /\ actionLog[i].timestamps.committed <= actionLog[i].timestamps.executed
    /\ actionLog[i].timestamps.executed <= actionLog[i].timestamps.revealed
    /\ actionLog[i].timestamps.revealed <= clock

\* Two calls ran together, the later one was appended first, and the clock
\* moved between the three steps of one of them
C16_Witness ==
  /\ Len(actionLog) = 2
  /\ actionLog[1] = calls[2].outcome.value[1]
  /\ \E i \in DOMAIN actionLog :
       /\ actionLog[i].timestamps.committed < actionLog[i].timestamps.executed
       /\ actionLog[i].timestamps.executed < actionLog[i].timestamps.revealed

\* The trace input toReasoningTrace must build from a reasoning, written out
\* key by key
TraceAgrees(trace, reasoning) ==
  LET parameters == trace.action.parameters
      Has(key) == key \in DOMAIN parameters
  IN /\ trace.action.type = reasoning.action
     /\ trace.action.description = reasoning.rationale
     /\ trace.decision.reasoning = reasoning.rationale
     /\ trace.decision.expectedOutcome = reasoning.expectedOutcome
     /\ trace.decision.confidence =
          (CASE reasoning.risk.level = "low" -> 90
             [] reasoning.risk.level = "medium" -> 70
             [] reasoning.risk.level = "high" -> 45
             [] reasoning.risk.level = "critical" -> 20)
     /\ Has("risk_level") /\ Has("risk_factors")
     /\ parameters["risk_level"] = <<reasoning.risk.level>>
     /\ Has("portfolio_value_usd") <=> reasoning.portfolioContext # Absent
     /\ Has("positions") <=> reasoning.portfolioContext # Absent
     /\ Has("constraints") <=> reasoning.constraints # Absent
     /\ reasoning.portfolioContext # Absent =>
          /\ parameters["portfolio_value_usd"]
               = <<reasoning.portfolioContext[1].totalValueUSD>>
          /\ parameters["positions"] = <<reasoning.portfolioContext[1].positions>>
     /\ reasoning.constraints # Absent =>
          parameters["constraints"] = <<reasoning.constraints[1]>>
     /\ DOMAIN parameters \subseteq
          {"risk_level", "risk_factors", "portfolio_value_usd", "positions",
           "constraints"}

\* C18: toReasoningTrace is total over the four risk levels and deterministic:
\* the trace input handed to the client carries the confidence low -> 90,
\* medium -> 70, high -> 45, critical -> 20, carries the portfolio value, the
\* positions and the constraints exactly when the reasoning carries them, and
\* is the same in executeAudited and in verifyAction for the same reasoning.
C18_TraceFromReasoning ==
  /\ calls[1].nCommit > 0 =>
       /\ calls[1].reasoning.risk.level \in RiskLevels
       /\ Len(calls[1].commitArgs.trace) = 1
       /\ TraceAgrees(calls[1].commitArgs.trace[1], calls[1].reasoning)
  /\ verify.nVerify > 0 =>
       /\ Len(verify.args.trace) = 1
       /\ TraceAgrees(verify.args.trace[1], verify.args.reasoning)
  /\ (calls[1].nCommit > 0 /\ verify.nVerify > 0
        /\ calls[1].reasoning = verify.args.reasoning) =>
       verify.args.trace = calls[1].commitArgs.trace

\* A critical reasoning without portfolio context and with an empty list of
\* constraints was committed, and a low one with a portfolio worth 0 verified
C18_Witness ==
  /\ calls[1].nCommit = 1
  /\ calls[1].reasoning.risk.level = "critical"
  /\ calls[1].reasoning.portfolioContext = Absent
  /\ calls[1].reasoning.constraints = <<<<>>>>
  /\ calls[1].commitArgs.trace[1].decision.confidence = 20
  /\ DOMAIN calls[1].commitArgs.trace[1].action.parameters
       = {"risk_level", "risk_factors", "constraints"}
  /\ verify.nVerify = 1
  /\ verify.args.reasoning.risk.level = "low"
  /\ verify.args.trace[1].decision.confidence = 90
  /\ "portfolio_value_usd" \in DOMAIN verify.args.trace[1].action.parameters

\* What one step does to the registration calls of an instance whose
\* autoRegister is on
C19_Step ==
  config.autoRegister =>
    /\ clientCalls'.isAgentRegistered =
         clientCalls.isAgentRegistered
           + (IF init'.issued = init.issued + 1 THEN 1 ELSE 0)
    /\ clientCalls'.registerAgent =
         clientCalls.registerAgent
           + (IF init.isRegistered = <<>> /\ init'.isRegistered = <<FALSE>>
                THEN 1 ELSE 0)
    /\ clientCalls.isAgentRegistered = init.issued
    /\ init.isRegistered = <<TRUE>> =>
         clientCalls'.registerAgent = clientCalls.registerAgent
    /\ registered => clientCalls'.registerAgent = clientCalls.registerAgent

\* C19: with autoRegister on (the default), every initialize call calls
\* isAgentRegistered once; it calls registerAgent once if the identity was
\* reported unregistered and not at all if it was reported registered; an
\* initialize call made once the identity is registered registers nothing.
C19_RegistersOnlyWhenUnregistered == [][C19_Step]_vars

\* initialize was called again after a first call had registered the identity
C19_Witness ==
  /\ config.autoRegister
  /\ init.issued = 2
  /\ init.pc = "idle"
  /\ init.isRegistered = <<TRUE>>
  /\ registered
  /\ clientCalls.isAgentRegistered = 2
  /\ clientCalls.registerAgent = 1

\* C21: however concurrent executeAudited calls interleave, no value of one
\* call ends up in another: a call reveals with the commitment address its
\* own commitReasoning returned, and the record of a call that returned holds
\* that same commit together with the call's own reasoning, the value its own
\* action resolved with and the result of its own reveal.
C21_ResultsNeverMixed ==
  \A c \in CallIds :
    /\ calls[c].nReveal > 0 =>
         /\ calls[c].commitPromise.kind = "fulfilled"
         /\ calls[c].revealArgs.commitmentAddress =
              calls[c].commitPromise.value[1].commitmentAddress
    /\ calls[c].outcome.kind = "fulfilled" =>
         \E i \in DOMAIN actionLog :
           /\ actionLog[i] = calls[c].outcome.value[1]
           /\ actionLog[i].commit = calls[c].commitPromise.value[1]
           /\ actionLog[i].reasoning = OwnReasoning(c)
           /\ actionLog[i].reasoning.rationale = "payment " \o ToString(c)
           /\ actionLog[i].actionResult = "receipt " \o ToString(c)
           /\ actionLog[i].reveal = calls[c].revealPromise.value[1]
           /\ actionLog[i].reveal.reasoningUri = calls[c].revealArgs.reasoningUri
           /\ actionLog[i].explorerUrl =
                "https://www.solprism.app/commitment/"
                  \o calls[c].commitPromise.value[1].commitmentAddress
           /\ \A d \in CallIds \ {c} :
                calls[d].commitPromise.kind = "fulfilled" =>
                  actionLog[i].commit # calls[d].commitPromise.value[1]

\* Both calls returned; the second one committed first and the first one
\* revealed first, so their steps crossed twice
C21_Witness ==
  /\ calls[1].outcome.kind = "fulfilled"
  /\ calls[2].outcome.kind = "fulfilled"
  /\ calls[2].commit.commitmentAddress = AddressOf(1)
  /\ calls[1].commit.commitmentAddress = AddressOf(2)
  /\ calls[1].reveal.signature = "revealTx1"
  /\ actionLog[1].actionResult = "receipt 1"
  /\ actionLog[2].actionResult = "receipt 2"

\* record is what some executeAudited call appended, field for field
AsAppended(record) ==
  \E c \in CallIds :
    /\ calls[c].revealPromise.kind = "fulfilled"
    /\ record = AuditRecord(calls[c], calls[c].reveal,
                            calls[c].timestamps.revealed)

\* C22, as claimed: a record is never changed after it was appended: whatever
\* a caller does with the record executeAudited returned or with an element
\* of an array getSessionLog returned, a later getSessionLog returns the
\* records as they were appended and a later formatAuditReport shows them so.
C22_RecordsNeverMutated ==
  /\ \A i \in DOMAIN snapshot.returned : AsAppended(snapshot.returned[i])
  /\ (report.issued > 0 /\ Appends > 0) =>
       \A k \in 1..Appends :
         LinesWith(report.value, "  |  Explorer: ")[k] =
           "  |  Explorer: https://www.solprism.app/commitment/"
             \o actionLog[k].commit.commitmentAddress

\* C23, as claimed: once initialize(wallet) has resolved, isReady() is true,
\* whatever the configuration; isReady() is true in exactly the states in
\* which executeAudited passes its precondition check.
C23_ReadyOnceInitialized ==
  /\ init.outcome.kind = "fulfilled" => isReady
  /\ isReady <=> ensureReady

\* C24, as claimed: an initialize(wallet) that rejected because
\* isAgentRegistered or registerAgent failed leaves the instance as it was
\* before the call: the wallet is not kept, and executeAudited,
\* getAccountabilityScore and getAuditHistory still fail with the
\* not-initialized error without a call of the client.
C24_RejectedInitializeKeepsNothing ==
  (init.issued = 1 /\ init.outcome.kind = "rejected") =>
    /\ wallet = NoWallet
    /\ registered = FALSE
    /\ \A c \in CallIds :
         calls[c].pc # "idle" =>
           /\ calls[c].outcome = Rejected(NotInitialized)
           /\ calls[c].nCommit = 0
    /\ reads.issued > 0 =>
         /\ reads.outcome = Rejected(NotInitialized)
         /\ reads.client = ""

\* C25, as claimed: while an initialize(wallet) is in flight, no
\* executeAudited call invokes commitReasoning: nothing is committed for an
\* identity whose registration check or registration has not completed. (The
\* first initialize is meant: before it the wallet is null and every call
\* fails its precondition.)
C25_NoCommitWhileInitializing ==
  (init.issued = 1 /\ init.pc # "idle") =>
    /\ clientCalls.commitReasoning = 0
    /\ \A c \in CallIds : calls[c].nCommit = 0


(* ------------------------- claims C26 and C27 -------------------------- *)

\* The amount the i-th feesToClaim read answered
Answered(i) == collector.reads[i].answer[1]

\* The elements of tokenAddresses, in list order, whose own read (the one at
\* position k + 1, the WETH read being the first) answered a positive amount
RECURSIVE PositiveTokens(_)
PositiveTokens(k) ==
  IF k = 0 THEN <<>>
  ELSE IF Answered(k + 1) > 0
         THEN Append(PositiveTokens(k - 1), collector.tokenAddresses[k])
         ELSE PositiveTokens(k - 1)

\* The tokens read so far are WETH and then the listed tokens, in list order
ReadsInListOrder ==
  /\ Len(collector.reads) <= 1 + Len(collector.tokenAddresses)
  /\ \A i \in DOMAIN collector.reads :
       collector.reads[i].token =
         IF i = 1 THEN WETH_ADDRESS ELSE collector.tokenAddresses[i - 1]

\* C26: collectAllFees checks before it claims and claims only positive
\* amounts. Every claim transaction is for the token of the read made last
\* before it, and that read answered a positive amount; a read that answered
\* a positive amount is followed by the claim of its token as soon as
\* collectAllFees has the answer, with no other read before it, and a read
\* that answered zero by no claim; the reads are WETH first and then the
\* listed tokens in list order; and when the call succeeds every token was
\* read, wethClaimed tells whether the WETH read was positive, wethAmount is
\* that amount formatted, and tokensClaimed is exactly the listed tokens whose
\* read was positive, in list order.
C26_ChecksBeforeClaims ==
  /\ ReadsInListOrder
  /\ \A j \in DOMAIN collector.claims :
       LET claim == collector.claims[j]
       IN /\ claim.read \in DOMAIN collector.reads
          /\ collector.reads[claim.read].token = claim.token
          /\ collector.reads[claim.read].answer # <<>>
          /\ Answered(claim.read) > 0
          /\ \A k \in DOMAIN collector.claims : k < j =>
               collector.claims[k].read < claim.read
  /\ \A i \in DOMAIN collector.reads :
       collector.reads[i].answer # <<>> =>
         LET claimed == \E j \in DOMAIN collector.claims :
                          collector.claims[j].read = i
             returning == i = Len(collector.reads)
                            /\ collector.pc = "awaitCheck"
         IN /\ claimed => Answered(i) > 0
            /\ (Answered(i) > 0 /\ ~returning) => claimed
            /\ returning => ~claimed
  /\ collector.outcome.kind = "fulfilled" =>
       /\ Len(collector.reads) = 1 + Len(collector.tokenAddresses)
       /\ collector.outcome.value[1].wethClaimed <=> Answered(1) > 0
       /\ collector.outcome.value[1].wethAmount =
            (IF Answered(1) > 0 THEN formatEther(Answered(1)) ELSE "0")
       /\ collector.outcome.value[1].tokensClaimed =
            PositiveTokens(Len(collector.tokenAddresses))
       /\ \A j \in DOMAIN collector.claims : collector.claims[j].confirmed

\* A successful call on two tokens where WETH had nothing to claim, the first
\* token had nothing and the second had fees
C26_Witness ==
  /\ collector.outcome.kind = "fulfilled"
  /\ Len(collector.tokenAddresses) = 2
  /\ Answered(1) = 0 /\ Answered(2) = 0 /\ Answered(3) > 0
  /\ collector.outcome.value[1].tokensClaimed = <<collector.tokenAddresses[2]>>
  /\ ~collector.outcome.value[1].wethClaimed

\* After a read, a transaction submission or a receipt wait has failed: the
\* check or claim method has rejected with that error and collectAllFees is
\* either about to go on from its await or already rejected with the same
\* error and no result object; the failed call is the last external call
\* made, and every claim made before it stays submitted and confirmed.
C27_Failed ==
  collector.failed # "" =>
    /\ collector.awaited.kind = "rejected"
    /\ \/ /\ collector.pc = (IF collector.failed = "check" THEN "awaitCheck"
                                                            ELSE "awaitClaim")
          /\ collector.outcome = Pending
       \/ /\ collector.pc = "done"
          /\ collector.outcome = Rejected(collector.awaited.error)
          /\ collector.outcome.value = <<>>
    /\ collector.failed = "check" =>
         /\ collector.reads[Len(collector.reads)].answer = <<>>
         /\ \A j \in DOMAIN collector.claims :
              /\ collector.claims[j].read < Len(collector.reads)
              /\ collector.claims[j].submitted
              /\ collector.claims[j].confirmed
    /\ collector.failed \in {"claim", "receipt"} =>
         /\ collector.claims # <<>>
         /\ collector.claims[Len(collector.claims)].read = Len(collector.reads)
         /\ collector.claims[Len(collector.claims)].submitted
              = (collector.failed = "receipt")
         /\ ~collector.claims[Len(collector.claims)].confirmed
         /\ \A j \in 1..(Len(collector.claims) - 1) :
              /\ collector.claims[j].submitted
              /\ collector.claims[j].confirmed
    /\ \A i \in 1..(Len(collector.reads) - 1) :
         collector.reads[i].answer # <<>>

\* The step collectAllFees takes when it goes on from the await of a check or
\* claim method that rejected is its own rejection with that error; it makes
\* no read and no claim
C27_Step ==
  /\ C27_Failed'
  /\ (collector.failed # "" /\ collector.pc # "done") =>
       /\ collector'.pc = "done"
       /\ collector'.outcome = Rejected(collector.awaited.error)
       /\ collector'.reads = collector.reads
       /\ collector'.claims = collector.claims
       /\ collector'.result = collector.result

\* C27: a failed check or claim ends collectAllFees at once. When a read, a
\* transaction submission or a receipt wait fails, the check or claim method
\* rejects with that error and the next thing collectAllFees does is reject
\* with the same error and no result object: the failed call is the last
\* external call made (no token after the failing one is read or claimed),
\* and every claim made before it stays submitted and confirmed.
C27_FailurePropagatesAtOnce == [][C27_Step]_vars

\* The WETH claim went through, then the first listed token's claim failed at
\* submission with a second token still in the list
C27_Witness ==
  /\ collector.outcome.kind = "rejected"
  /\ collector.failed = "claim"
  /\ Len(collector.tokenAddresses) = 2
  /\ Len(collector.reads) = 2
  /\ Len(collector.claims) = 2
  /\ collector.claims[1].token = WETH_ADDRESS
  /\ collector.claims[1].confirmed


(* ------------------------- claims C28 and C29 -------------------------- *)

\* The balances getAllBalances returned to its caller or to getStatus
ReturnedBalances ==
  IF manager.op = "getStatus" THEN manager.outcome.value[1].balances
  ELSE manager.outcome.value[1]

\* The chains whose read succeeded, in the order the reads were attempted
RECURSIVE ChainsRead(_)
ChainsRead(attempts) ==
  IF attempts = <<>> THEN <<>>
  ELSE LET last == attempts[Len(attempts)]
           before == ChainsRead(SubSeq(attempts, 1, Len(attempts) - 1))
       IN IF last.ok THEN Append(before, last.chain) ELSE before

\* C28: getAllBalances never rejects because a chain read failed. A call that
\* reads the balances is never rejected; when it has returned, both reads
\* were attempted, Base first and Solana second, whatever the first one did,
\* and the balances returned are exactly those of the reads that succeeded,
\* Base before Solana, so between 0 and 2 of them.
C28_ReadFailuresAreContained ==
  manager.op \in {"getAllBalances", "getStatus"} =>
    /\ manager.outcome.kind # "rejected"
    /\ manager.pc = "done" =>
         /\ manager.outcome.kind = "fulfilled"
         /\ Len(manager.reads) = 2
         /\ manager.reads[1].chain = "base"
         /\ manager.reads[2].chain = "solana"
         /\ Len(ReturnedBalances) \in 0..2
         /\ [i \in DOMAIN ReturnedBalances |-> ReturnedBalances[i].chain]
              = ChainsRead(manager.reads)

\* getAllBalances returned the Solana balance alone after the Base read failed
C28_Witness ==
  /\ manager.op = "getAllBalances"
  /\ manager.pc = "done"
  /\ ~manager.reads[1].ok
  /\ manager.reads[2].ok
  /\ Len(manager.outcome.value[1]) = 1
  /\ manager.outcome.value[1][1].chain = "solana"

\* The Base balance is returned alone after the Solana read failed
C28_WitnessBaseKept ==
  /\ manager.op = "getAllBalances"
  /\ manager.pc = "done"
  /\ manager.reads[1].ok
  /\ ~manager.reads[2].ok
  /\ Len(manager.outcome.value[1]) = 1
  /\ manager.outcome.value[1][1].chain = "base"

\* C29: getStatus puts the low-runway alert in its result if and only if the
\* computed daysRemaining is strictly below runwayAlert.thresholdDays, where
\* daysRemaining is (totalBalanceUSD / monthlyBurnRateUSD) * 30 when both are
\* positive and infinite otherwise. In particular a total balance of zero with
\* a positive burn rate gives infinite days remaining and no alert.
C29_LowRunwayAlert ==
  /\ manager.op \in {"getStatus", "calculateRunway"} /\ manager.pc = "done" =>
       LET runway == IF manager.op = "getStatus"
                       THEN manager.outcome.value[1].runway
                       ELSE manager.outcome.value[1]
           total == runway.totalBalanceUSD
           burn == runway.monthlyBurnRateUSD
       IN /\ burn = manager.monthlyBurnRateUSD
          /\ runway.alertThreshold = manager.thresholdDays
          /\ total > 0 /\ burn > 0 =>
               runway.daysRemaining = Finite((total \div burn) * 30)
          /\ ~(total > 0 /\ burn > 0) => runway.daysRemaining = Infinity
  /\ manager.op = "getStatus" /\ manager.pc = "done" =>
       LET status == manager.outcome.value[1]
           days == status.runway.daysRemaining
           below == ~days.infinite /\ days.n < manager.thresholdDays
       IN /\ status.runway.totalBalanceUSD
               = SumUsdValue(status.balances)
          /\ below => status.alerts = <<LowRunwayAlert(days)>>
          /\ ~below => status.alerts = <<>>
          /\ status.runway.totalBalanceUSD = 0 /\ manager.monthlyBurnRateUSD > 0
               => days = Infinity /\ status.alerts = <<>>

\* getStatus returned for a positive burn rate with both balances read: the
\* total is zero, the days remaining infinite and there is no alert
C29_Witness ==
  /\ manager.op = "getStatus"
  /\ manager.pc = "done"
  /\ manager.monthlyBurnRateUSD > 0
  /\ Len(manager.outcome.value[1].balances) = 2
  /\ manager.outcome.value[1].runway.totalBalanceUSD = 0
  /\ manager.outcome.value[1].runway.daysRemaining = Infinity
  /\ manager.outcome.value[1].alerts = <<>>

\* calculateRunway returned fewer days than the threshold
C29_WitnessBelowThreshold ==
  /\ manager.op = "calculateRunway"
  /\ manager.pc = "done"
  /\ LessThan(manager.outcome.value[1].daysRemaining, manager.thresholdDays)

=============================================================================
